---------------------------- MODULE Spec2Model ----------------------------
(***************************************************************************)
(* A model of the response transformation pipeline of ask-llama.           *)
(*                                                                         *)
(*   src/query-llama.py          format_response, format_thinking_block    *)
(*                               (also with show_counts), main,            *)
(*                               query_server                              *)
(*   src/archive/llama_query.py  detect_and_remove_repetition,             *)
(*                               trim_prompt_repetition,                   *)
(*                               format_code_blocks, wrap_text, main,      *)
(*                               query_llama_server                        *)
(*                                                                         *)
(* A Python string is a sequence of characters; a character is a TLA+      *)
(* string.  Characters that cannot be written in a TLA+ string literal     *)
(* have names: "ESC" is \033, "ELLIPSIS" is U+2026, "BEL" is \a, "BS" is   *)
(* \b, and "BOX_H", "BOX_V", "BOX_TL", "BOX_TR", "BOX_BL", "BOX_BR" are    *)
(* the box-drawing characters U+2500, U+2502, U+250C, U+2510, U+2514 and   *)
(* U+2518, "BOX_D" is U+2550, and "BACKTICK" is the grave accent U+0060.   *)
(* Each of these names stands for ONE character, so Len is the len() of    *)
(* the Python string.                                                      *)
(***************************************************************************)
EXTENDS Integers, Sequences, FiniteSets, TLC

VARIABLES
    \* ---- format_response (src/query-llama.py) ----
    pc,               \* "call" | "returned" | "raised"
    text,             \* argument text
    width,            \* argument width
    show_thinking,    \* argument show_thinking
    use_color,        \* argument use_color
    tokens,           \* argument tokens: None or an int
    thinking_blocks,  \* local thinking_blocks (line 131)
    think_text,       \* local text after the thinking-block handling (line 143)
    is_truncated,     \* local is_truncated when line 154 reads it
    formatted,        \* the returned string
    \* ---- detect_and_remove_repetition (src/archive/llama_query.py) ----
    dpc,              \* "call" | "returned"
    dtext,            \* argument text
    min_len,          \* module global MIN_PARAGRAPH_LENGTH at the call
    paragraphs,       \* local paragraphs (line 64)
    unique_paragraphs,\* local unique_paragraphs when line 85 reads it
    note_added,       \* whether line 86 ran
    deduped,          \* the returned string
    \* ---- format_response with show_counts (src/query-llama.py) ----
    show_counts,      \* argument show_counts
    full_response,    \* argument full_response: None or a payload
    rendered,         \* local text when line 164 reads it
    answer_content,   \* local answer_content (line 178)
    usage,            \* the counts when line 220 reads them, None before
    counts_error,     \* str(e) when line 245 catches e, None otherwise
    \* ---- trim_prompt_repetition (src/archive/llama_query.py) ----
    tpc,              \* "call" | "returned" | "raised"
    ttext,            \* argument text
    tprompt,          \* argument prompt
    trimmed,          \* the returned string
    \* ---- format_code_blocks, wrap_text (src/archive/llama_query.py) ----
    bpc,              \* "format" | "wrap" | "returned" | "raised"
    btext,            \* argument text of format_code_blocks
    bwidth,           \* argument width of wrap_text
    line_no,          \* how many lines the loop of line 105 has read
    in_code_block,    \* local in_code_block of format_code_blocks
    formatted_lines,  \* local formatted_lines
    emitted,          \* history: the branch that appended each formatted line
    wtext,            \* argument text of wrap_text
    wrap_no,          \* how many lines the loop of line 135 has read
    wrap_in_code_block, \* local in_code_block of wrap_text
    wrapped_lines,    \* local wrapped_lines
    \* ---- the command-line entry points ----
    entry,            \* "query-llama" | "llama_query"
    ppc,              \* "main" | "waiting" | "received" | "exited"
    json_mode,        \* llama_query --json
    raw,              \* llama_query --raw
    no_clean,         \* llama_query --no-clean
    requests,         \* network requests issued so far
    response,         \* "none" | "ok" | how the request failed
    reported,         \* an error message has been printed
    format_calls,     \* calls of format_response so far
    printed,          \* the formatted document has been printed
    exit_code,        \* None while the process runs
    args_tokens,      \* query-llama --tokens, None when not given
    n_predict         \* "n_predict" of the request, None when not set

fvars == <<pc, text, width, show_thinking, use_color, tokens,
           thinking_blocks, think_text, is_truncated, formatted>>
dvars == <<dpc, dtext, min_len, paragraphs, unique_paragraphs, note_added,
           deduped>>
uvars == <<show_counts, full_response, rendered, answer_content, usage,
           counts_error>>
tvars == <<tpc, ttext, tprompt, trimmed>>
bvars == <<bpc, btext, bwidth, line_no, in_code_block, formatted_lines,
           emitted, wtext, wrap_no, wrap_in_code_block, wrapped_lines>>
pvars == <<entry, ppc, json_mode, raw, no_clean, requests, response, reported,
           format_calls, printed, exit_code, args_tokens, n_predict>>
vars == <<fvars, dvars, uvars, tvars, bvars, pvars>>

\* Optional[int]: None is the empty tuple, an int n is <<n>>.
None == <<>>

\* No call with show_counts is under way.
UsageIdle ==
    /\ show_counts = FALSE
    /\ full_response = None
    /\ rendered = <<>>
    /\ answer_content = <<>>
    /\ usage = None
    /\ counts_error = None

TrimIdle ==
    /\ tpc = "idle"
    /\ ttext = <<>>
    /\ tprompt = <<>>
    /\ trimmed = <<>>

CodeIdle ==
    /\ bpc = "idle"
    /\ btext = <<>>
    /\ bwidth = 0
    /\ line_no = 0
    /\ in_code_block = FALSE
    /\ formatted_lines = <<>>
    /\ emitted = <<>>
    /\ wtext = <<>>
    /\ wrap_no = 0
    /\ wrap_in_code_block = FALSE
    /\ wrapped_lines = <<>>

CliIdle ==
    /\ entry = "none"
    /\ ppc = "idle"
    /\ json_mode = FALSE
    /\ raw = FALSE
    /\ no_clean = FALSE
    /\ requests = 0
    /\ response = "none"
    /\ reported = FALSE
    /\ format_calls = 0
    /\ printed = FALSE
    /\ exit_code = None
    /\ args_tokens = None
    /\ n_predict = None

(***************************************************************************)
(* Evaluation.  Eval(e, LAMBDA x : body) is body with x bound to the value *)
(* of e: it is LET x == e IN body, with e evaluated once however often     *)
(* body reads x.                                                           *)
(***************************************************************************)
Eval(e, F(_)) == CHOOSE v \in {F(x) : x \in {e}} : TRUE

(***************************************************************************)
(* Python str primitives.                                                  *)
(***************************************************************************)
\* Python's str.isspace() on the characters of the model's alphabet.
IsSpace(c) == c \in {" ", "\n", "TAB", "CR", "VT", "FF"}

Min(S0) == Eval(S0, LAMBDA S : CHOOSE x \in S : \A y \in S : x <= y)

Max(S) == 0 - Min({0 - x : x \in S})

\* s[i-1:] in Python terms (1-based i).
Tail_(s, i) == SubSeq(s, i, Len(s))

\* s.startswith(p, i-1)
StartsWithAt(s, i, p) ==
    /\ i >= 1
    /\ i + Len(p) - 1 <= Len(s)
    /\ p = <<>> \/ s[i] = p[1]
    /\ SubSeq(s, i, i + Len(p) - 1) = p

\* s.endswith(p)
EndsWith(s, p) ==
    /\ Len(p) <= Len(s)
    /\ SubSeq(s, Len(s) - Len(p) + 1, Len(s)) = p

\* s.find(p, from-1) + 1: the first position >= from where p occurs, 0 if none.
Find(s0, p0, from) ==
    Eval(s0, LAMBDA s : Eval(p0, LAMBDA p :
    Eval({i \in from..(Len(s) - Len(p) + 1) : StartsWithAt(s, i, p)},
         LAMBDA S : IF S = {} THEN 0 ELSE Min(S))))

\* p in s
Contains(s, p) == Find(s, p, 1) # 0

\* s.replace(old, new) for a non-empty old: left to right, non-overlapping,
\* one pass (the replaced text is not rescanned).
RECURSIVE Replace(_, _, _)
Replace(s0, old, new) ==
    Eval(s0, LAMBDA s : Eval(Find(s, old, 1), LAMBDA i :
        IF i = 0 THEN s
        ELSE SubSeq(s, 1, i - 1) \o new
             \o Replace(Tail_(s, i + Len(old)), old, new)))

\* s.rstrip(): up to the last character that is not whitespace
RStrip(s0) ==
    Eval(s0, LAMBDA s : Eval({i \in 1..Len(s) : ~IsSpace(s[i])},
        LAMBDA keep : IF keep = {} THEN <<>> ELSE SubSeq(s, 1, Max(keep))))

\* s.lstrip(): from the first character that is not whitespace
LStrip(s0) ==
    Eval(s0, LAMBDA s : Eval({i \in 1..Len(s) : ~IsSpace(s[i])},
        LAMBDA keep : IF keep = {} THEN <<>>
                      ELSE SubSeq(s, Min(keep), Len(s))))

\* s.strip()
Strip(s) == LStrip(RStrip(s))

\* s.split(sep) for a one-character sep: always at least one field.
RECURSIVE Split(_, _)
Split(s0, sep) ==
    Eval(s0, LAMBDA s : Eval(Find(s, <<sep>>, 1), LAMBDA i :
        IF i = 0 THEN <<s>>
        ELSE <<SubSeq(s, 1, i - 1)>> \o Split(Tail_(s, i + 1), sep)))

\* sep.join(list)
RECURSIVE Join(_, _)
Join(list0, sep) ==
    Eval(list0, LAMBDA list :
        IF list = <<>> THEN <<>>
        ELSE IF Len(list) = 1 THEN list[1]
        ELSE list[1] \o sep \o Join(Tail(list), sep))

\* c * n
Repeat(c, n) == [i \in 1..n |-> c]

\* re.sub(r'\n{3,}', '\n\n', s): every maximal run of three or more
\* newlines becomes two.
RECURSIVE CollapseNewlines(_)
CollapseNewlines(s0) ==
    Eval(s0, LAMBDA s : Eval(Find(s, <<"\n", "\n", "\n">>, 1), LAMBDA i :
        IF i = 0 THEN s
        ELSE Eval(Min({k \in (i + 3)..(Len(s) + 1) :
                           k = Len(s) + 1 \/ s[k] # "\n"}),
                  LAMBDA rest : SubSeq(s, 1, i - 1) \o <<"\n", "\n">>
                                \o CollapseNewlines(Tail_(s, rest)))))

(***************************************************************************)
(* Regular expressions of format_response.                                 *)
(***************************************************************************)
think_open == <<"<", "t", "h", "i", "n", "k", ">">>

think_close == <<"<", "/", "t", "h", "i", "n", "k", ">">>

\* Mutant of ThinkMatch: the closing tag terminates the opening tag nearest
\* before it, not the leftmost one.
ThinkMatchNearest(s0, from) ==
    Eval(s0, LAMBDA s : Eval(Find(s, think_open, from), LAMBDA o1 :
    Eval(IF o1 = 0 THEN 0 ELSE Find(s, think_close, o1 + Len(think_open)),
         LAMBDA c :
             [found |-> o1 # 0 /\ c # 0,
              start |-> IF c = 0 THEN o1
                        ELSE Max({i \in o1..(c - Len(think_open)) :
                                      StartsWithAt(s, i, think_open)}),
              close |-> c])))

\* One match of think_pattern = r'<think>(.*?)</think>' (re.DOTALL) searched
\* from position from: the leftmost opening tag that has a closing tag
\* after it, up to the first closing tag after that opening tag.  If the
\* leftmost opening tag has no closing tag after it, no later one has.
\* [found, start, close]: the opening tag starts at start, the closing tag at
\* close.
ThinkMatch(s0, from) ==
    Eval(s0, LAMBDA s : Eval(Find(s, think_open, from), LAMBDA o :
    Eval(IF o = 0 THEN 0 ELSE Find(s, think_close, o + Len(think_open)),
         LAMBDA c : [found |-> o # 0 /\ c # 0, start |-> o, close |-> c])))

\* re.findall(think_pattern, s, re.DOTALL): group 1 of every match, the
\* search resuming after the previous match.
RECURSIVE FindAllThink(_)
FindAllThink(s0) ==
    Eval(s0, LAMBDA s : Eval(ThinkMatch(s, 1), LAMBDA m :
        IF ~m.found THEN <<>>
        ELSE <<SubSeq(s, m.start + Len(think_open), m.close - 1)>>
             \o FindAllThink(Tail_(s, m.close + Len(think_close)))))

\* re.sub(think_pattern, '', s, flags=re.DOTALL)
RECURSIVE SubThinkEmpty(_)
SubThinkEmpty(s0) ==
    Eval(s0, LAMBDA s : Eval(ThinkMatch(s, 1), LAMBDA m :
        IF ~m.found THEN s
        ELSE SubSeq(s, 1, m.start - 1)
             \o SubThinkEmpty(Tail_(s, m.close + Len(think_close)))))

\* The template escapes of re.sub's replacement string (sre_parse
\* parse_template, ESCAPES): backslash + letter.
TemplateEscape(c) ==
    CASE c = "a" -> "BEL"
      [] c = "b" -> "BS"
      [] c = "f" -> "FF"
      [] c = "n" -> "\n"
      [] c = "r" -> "CR"
      [] c = "t" -> "TAB"
      [] c = "v" -> "VT"
      [] c = "\\" -> "\\"
      [] OTHER -> "?"

AsciiLetters ==
    {"a", "b", "c", "d", "e", "f", "g", "h", "i", "j", "k", "l", "m", "n", "o",
     "p", "q", "r", "s", "t", "u", "v", "w", "x", "y", "z",
     "A", "B", "C", "D", "E", "F", "G", "H", "I", "J", "K", "L", "M", "N", "O",
     "P", "Q", "R", "S", "T", "U", "V", "W", "X", "Y", "Z"}

Digits == {"0", "1", "2", "3", "4", "5", "6", "7", "8", "9"}

\* re.sub compiles a replacement string that holds a backslash as a
\* template: a known escape is converted, backslash + any other ASCII letter
\* and a trailing backslash raise re.error, backslash + a non-alphanumeric
\* character is kept as both characters.  The pattern the template is used
\* with has no groups, so backslash + digit (a group reference) and \g raise
\* too (\g<0> and octal escapes are not modelled: the texts of the model hold
\* no digits).  [ok, s].
RECURSIVE ExpandTemplate(_)
ExpandTemplate(t0) ==
    Eval(t0, LAMBDA t : Eval(Find(t, <<"\\">>, 1), LAMBDA i :
        IF i = 0 THEN [ok |-> TRUE, s |-> t]
        ELSE IF i = Len(t) THEN [ok |-> FALSE, s |-> <<>>]
        ELSE IF TemplateEscape(t[i + 1]) = "?"
                /\ t[i + 1] \in AsciiLetters \cup Digits
             THEN [ok |-> FALSE, s |-> <<>>]
        ELSE Eval(ExpandTemplate(Tail_(t, i + 2)), LAMBDA r :
                 [ok |-> r.ok,
                  s |-> SubSeq(t, 1, i - 1)
                        \o (IF TemplateEscape(t[i + 1]) # "?"
                            THEN <<TemplateEscape(t[i + 1])>>
                            ELSE <<"\\", t[i + 1]>>)
                        \o r.s])))

\* re.sub(re.escape(literal), repl, s, flags=re.DOTALL): every
\* non-overlapping occurrence of the literal, left to right, is replaced by
\* the expanded template.  The template is compiled before the search, so a
\* bad template raises even when the literal does not occur.  [ok, s].
SubLiteral(literal, repl, s) ==
    Eval(ExpandTemplate(repl), LAMBDA t :
        IF ~t.ok THEN [ok |-> FALSE, s |-> s]
        ELSE [ok |-> TRUE, s |-> Replace(s, literal, t.s)])

(***************************************************************************)
(* textwrap.wrap(line, width) with the defaults format_thinking_block uses *)
(* (expand_tabs, replace_whitespace, drop_whitespace, break_long_words).   *)
(* The texts of the model hold no tab and no hyphen, so expandtabs and the *)
(* hyphen break points of wordsep_re do nothing.                           *)
(***************************************************************************)
\* TextWrapper._munge_whitespace: every whitespace character becomes a space.
Munge(s0) ==
    Eval(s0, LAMBDA s : [i \in 1..Len(s) |-> IF IsSpace(s[i]) THEN " " ELSE s[i]])

\* chunk.strip() == ''
IsBlank(s0) == Eval(s0, LAMBDA s : \A i \in 1..Len(s) : IsSpace(s[i]))

\* TextWrapper._split: maximal runs of whitespace and of non-whitespace.
RECURSIVE SplitChunks(_)
SplitChunks(s0) ==
    Eval(s0, LAMBDA s :
        IF s = <<>> THEN <<>>
        ELSE Eval(Min({n \in 1..Len(s) :
                          /\ \A j \in 1..n : IsSpace(s[j]) = IsSpace(s[1])
                          /\ (n = Len(s)
                              \/ IsSpace(s[n + 1]) # IsSpace(s[1]))}),
                  LAMBDA k : <<SubSeq(s, 1, k)>>
                             \o SplitChunks(Tail_(s, k + 1))))

\* sum(map(len, chunks[:k]))
RECURSIVE SumLen(_, _)
SumLen(chunks, k) ==
    IF k = 0 THEN 0 ELSE Len(chunks[k]) + SumLen(chunks, k - 1)

\* ''.join(chunks)
Concat(chunks) == Join(chunks, <<>>)

\* One pass of the outer loop of TextWrapper._wrap_chunks for w >= 1, from
\* the chunks left: [line, rest], line being the list of chunks of the line
\* (empty: no line is appended).
WrapLine(chunks0, w, first) ==
    \* a whitespace chunk that would start a line after the first is dropped
    Eval(IF IsBlank(chunks0[1]) /\ ~first THEN Tail(chunks0) ELSE chunks0,
         LAMBDA c1 :
    \* the chunks that fit: the longest prefix no longer than w
    Eval(Max({n \in 0..Len(c1) : SumLen(c1, n) <= w}), LAMBDA k :
    Eval(SubSeq(c1, 1, k), LAMBDA cur :
    Eval(Tail_(c1, k + 1), LAMBDA rest :
    \* _handle_long_word: the next chunk fits on no line and is cut
    Eval(rest # <<>> /\ Len(rest[1]) > w, LAMBDA long :
    Eval(w - SumLen(c1, k), LAMBDA space_left :
    Eval(IF long THEN Append(cur, SubSeq(rest[1], 1, space_left)) ELSE cur,
         LAMBDA cur2 :
    [ \* a whitespace chunk that would end the line is dropped
      line |-> IF cur2 # <<>> /\ IsBlank(cur2[Len(cur2)])
               THEN SubSeq(cur2, 1, Len(cur2) - 1) ELSE cur2,
      rest |-> IF long
               THEN <<Tail_(rest[1], space_left + 1)>> \o Tail(rest)
               ELSE rest ])))))))

\* TextWrapper._wrap_chunks for w >= 1.
RECURSIVE WrapChunks(_, _, _)
WrapChunks(chunks0, w, lines0) ==
    Eval(chunks0, LAMBDA chunks : Eval(lines0, LAMBDA lines :
        IF chunks = <<>> THEN lines
        ELSE Eval(WrapLine(chunks, w, lines = <<>>), LAMBDA r :
                 WrapChunks(r.rest, w,
                            IF r.line # <<>>
                            THEN Append(lines, Concat(r.line))
                            ELSE lines))))

\* Mutant of Wrap: the lines may be one character longer than the width.
WrapWide(s, w) == WrapChunks(SplitChunks(Munge(s)), w + 1, <<>>)

\* textwrap.wrap(s, width=w): the list of lines, for w >= 1 (w <= 0 raises
\* ValueError, which the callers model).
Wrap(s, w) == WrapChunks(SplitChunks(Munge(s)), w, <<>>)

(***************************************************************************)
(* format_thinking_block (src/query-llama.py lines 83-109).                *)
(***************************************************************************)
ANSI_BOLD == <<"ESC", "[", "1", "m">>

ANSI_RESET == <<"ESC", "[", "0", "m">>

ANSI_THINK == <<"ESC", "[", "3", "8", ";", "5", ";", "2", "4", "6", "m">>

ANSI_YELLOW == <<"ESC", "[", "3", "3", "m">>

BorderLen == 40

HeaderPad == 23

border == Repeat("BOX_H", BorderLen)

panel_title ==
    <<" ", "T", "H", "I", "N", "K", "I", "N", "G", " ",
      "P", "R", "O", "C", "E", "S", "S", " ">>

\* result[0], result[1] (lines 91-94)
panel_header ==
    << ANSI_BOLD \o ANSI_THINK \o <<"BOX_TL">> \o border \o <<"BOX_TR">>
         \o ANSI_RESET,
       ANSI_THINK \o <<"BOX_V">> \o ANSI_BOLD \o panel_title
         \o Repeat(" ", HeaderPad) \o ANSI_THINK \o <<"BOX_V">> \o ANSI_RESET >>

\* line 107
panel_footer ==
    ANSI_THINK \o <<"BOX_BL">> \o border \o <<"BOX_BR">> \o ANSI_RESET

\* line 102: one wrapped line, padded to width - 4
PanelRow(wrapped_line, w) ==
    ANSI_THINK \o <<"BOX_V">> \o ANSI_RESET \o <<" ">> \o ANSI_THINK
    \o wrapped_line \o Repeat(" ", w - 4 - Len(wrapped_line))
    \o ANSI_RESET \o <<" ">> \o ANSI_THINK \o <<"BOX_V">> \o ANSI_RESET

\* line 104: a blank interior line
PanelBlankRow(w) ==
    ANSI_THINK \o <<"BOX_V">> \o Repeat(" ", w - 2) \o <<"BOX_V">>
    \o ANSI_RESET

\* lines 97-104 for the lines of the block
RECURSIVE PanelRows(_, _)
PanelRows(lines0, w) ==
    Eval(lines0, LAMBDA lines :
        IF lines = <<>> THEN <<>>
        ELSE (IF Strip(lines[1]) # <<>>
              THEN Eval(Wrap(lines[1], w - 4), LAMBDA wrapped :
                       [i \in 1..Len(wrapped) |-> PanelRow(wrapped[i], w)])
              ELSE <<PanelBlankRow(w)>>)
             \o PanelRows(Tail(lines), w))

\* format_thinking_block(block, w).  textwrap.wrap raises ValueError for a
\* width - 4 <= 0, and is called for every non-blank line.  [ok, s].
format_thinking_block(block, w) ==
    Eval(Split(Strip(block), "\n"), LAMBDA lines :
        IF w - 4 <= 0 /\ \E i \in 1..Len(lines) : Strip(lines[i]) # <<>>
        THEN [ok |-> FALSE, s |-> <<>>]
        ELSE [ok |-> TRUE,
              s |-> Join(panel_header \o PanelRows(lines, w)
                         \o <<panel_footer>>, <<"\n">>)])

(***************************************************************************)
(* format_response (src/query-llama.py lines 123-161).                     *)
(***************************************************************************)
im_start == <<"<", "|", "i", "m", "_", "s", "t", "a", "r", "t", "|", ">">>

im_end == <<"<", "|", "i", "m", "_", "e", "n", "d", "|", ">">>

\* line 127
StripMarkers(s) == Replace(Replace(s, im_start, <<>>), im_end, <<>>)

\* line 138: formatted_block.  [ok, s].
FormattedBlock(block, w, color) ==
    IF color THEN format_thinking_block(block, w)
    ELSE [ok |-> TRUE, s |-> block]

\* lines 137-140: the loop over thinking_blocks, each iteration rewriting
\* the whole text.  [ok, s]; not ok when an iteration raises.
RECURSIVE ShowThinking(_, _, _, _)
ShowThinking(s0, blocks0, w, color) ==
    Eval(s0, LAMBDA s : Eval(blocks0, LAMBDA blocks :
        IF blocks = <<>> THEN [ok |-> TRUE, s |-> s]
        ELSE Eval(FormattedBlock(blocks[1], w, color), LAMBDA fb :
             Eval(IF fb.ok
                  THEN SubLiteral(think_open \o blocks[1] \o think_close,
                                  fb.s, s)
                  ELSE [ok |-> FALSE, s |-> s],
                  LAMBDA r : IF ~r.ok THEN r
                             ELSE ShowThinking(r.s, Tail(blocks), w, color)))))

\* Mutant of HideThinking: the greedy pattern r'<think>(.*)</think>', which
\* deletes from the first opening tag to the last closing tag.
HideThinkingGreedy(s) ==
    LET o == Find(s, think_open, 1)
        closes == {c \in (o + Len(think_open))..Len(s) :
                       StartsWithAt(s, c, think_close)}
    IN  IF o = 0 \/ closes = {} THEN s
        ELSE SubSeq(s, 1, o - 1)
             \o Tail_(s, Max(closes) + Len(think_close))

\* lines 142-143
HideThinking(s) == SubThinkEmpty(s)

\* lines 136-143.  [ok, s].
HandleThinking(s, blocks, show, w, color) ==
    IF blocks # <<>> /\ show THEN ShowThinking(s, blocks, w, color)
    ELSE [ok |-> TRUE, s |-> HideThinking(s)]

\* line 147
truncation_indicators ==
    { <<".", ".", ".">>,
      <<"ELLIPSIS">>,
      <<"t", "o", " ", "b", "e", " ", "c", "o", "n", "t", "i", "n", "u", "e", "d">>,
      <<"c", "o", "n", "t">>,
      <<"c", "o", "n", "t", "i", "n", "u", "e", "s">> }

\* Mutant of EndsWithIndicator: the text is not right-trimmed first.
EndsWithIndicatorNoStrip(s) ==
    \E indicator \in truncation_indicators : EndsWith(s, indicator)

\* line 148
EndsWithIndicator(s) ==
    Eval(RStrip(s), LAMBDA stripped :
        \E indicator \in truncation_indicators : EndsWith(stripped, indicator))

TruncationMargin == 20

\* Mutant of NearLimit: > for >=.
NearLimitStrict(s, toks) ==
    toks # None /\ Len(s) > toks[1] - TruncationMargin

\* line 151
NearLimit(s, toks) ==
    toks # None /\ Len(s) >= toks[1] - TruncationMargin

\* lines 148-152
IsTruncated(s, toks) == EndsWithIndicator(s) \/ NearLimit(s, toks)

truncation_note ==
    <<"[", "N", "o", "t", "e", ":", " ", "R", "e", "s", "p", "o", "n", "s", "e",
      " ", "m", "a", "y", " ", "b", "e", " ", "t", "r", "u", "n", "c", "a", "t",
      "e", "d", "]">>

\* Mutant of TruncationSuffix: the note follows the text directly.
TruncationSuffixNoGap(color) ==
    IF color
    THEN ANSI_YELLOW \o truncation_note \o ANSI_RESET
    ELSE truncation_note

\* line 155: what is appended
TruncationSuffix(color) ==
    IF color
    THEN <<"\n", "\n">> \o ANSI_YELLOW \o truncation_note \o ANSI_RESET
    ELSE <<"\n", "\n">> \o truncation_note

\* line 158
CleanTags(s) == Replace(Replace(s, think_open, <<>>), think_close, <<>>)

\* lines 154-161: from the text after the thinking-block handling to the
\* text line 163 sees.
Finish(s, truncated, color) ==
    Eval(IF truncated THEN s \o TruncationSuffix(color) ELSE s, LAMBDA noted :
    Eval(CleanTags(noted), LAMBDA cleaned : CollapseNewlines(cleaned)))

\* format_response(text, width, show_thinking, use_color, tokens) with
\* show_counts off: the locals the claims read and the returned string.
\* ok is FALSE when the thinking-block loop raises (nothing is returned).
format_response(t, w, show, color, toks) ==
    Eval(StripMarkers(t), LAMBDA stripped :
    Eval(FindAllThink(stripped), LAMBDA blocks :
    Eval(HandleThinking(stripped, blocks, show, w, color), LAMBDA handled :
    Eval(handled.ok /\ IsTruncated(handled.s, toks), LAMBDA truncated :
        [ok |-> handled.ok,
         thinking_blocks |-> blocks,
         think_text |-> handled.s,
         is_truncated |-> truncated,
         out |-> IF handled.ok THEN Finish(handled.s, truncated, color)
                 ELSE <<>>]))))

(***************************************************************************)
(* The inputs of format_response.                                          *)
(***************************************************************************)
MaxPieces == 3

Pieces ==
    { think_open, think_close, <<"a">>, <<" ">>, <<"\n">>, <<"\\">>,
      <<".", ".", ".">>, <<"c", "o", "n", "t">> }

RECURSIVE PieceTexts(_)
PieceTexts(n) ==
    IF n = 0 THEN {<<>>}
    ELSE LET shorter == PieceTexts(n - 1)
         IN  shorter \cup {s \o p : s \in shorter, p \in Pieces}

\* "<think>reasoning here</think>Final answer."
ScenarioHide ==
    <<"<", "t", "h", "i", "n", "k", ">", "r", "e", "a", "s", "o", "n", "i",
      "n", "g", " ", "h", "e", "r", "e", "<", "/", "t", "h", "i", "n", "k",
      ">", "F", "i", "n", "a", "l", " ", "a", "n", "s", "w", "e", "r", ".">>

\* "<think>a<think>b</think>"
ScenarioNested ==
    <<"<", "t", "h", "i", "n", "k", ">", "a", "<", "t", "h", "i", "n", "k",
      ">", "b", "<", "/", "t", "h", "i", "n", "k", ">">>

\* "<think>a</think> <think>b b</think>a."
ScenarioTwoBlocks ==
    <<"<", "t", "h", "i", "n", "k", ">", "a", "<", "/", "t", "h", "i", "n",
      "k", ">", " ", "<", "t", "h", "i", "n", "k", ">", "b", " ", "b", "<",
      "/", "t", "h", "i", "n", "k", ">", "a", ".">>

\* "a" followed by U+2026
ScenarioEllipsis == <<"a", "ELLIPSIS">>

\* "a continues"
ScenarioContinues ==
    <<"a", " ", "c", "o", "n", "t", "i", "n", "u", "e", "s">>

\* "to be continued \n"
ScenarioToBeContinued ==
    <<"t", "o", " ", "b", "e", " ", "c", "o", "n", "t", "i", "n", "u", "e",
      "d", " ", "\n">>

\* "Final answer. Final answer. Final answer. Final answer."
ScenarioLong ==
    <<"F", "i", "n", "a", "l", " ", "a", "n", "s", "w", "e", "r", ".", " ",
      "F", "i", "n", "a", "l", " ", "a", "n", "s", "w", "e", "r", ".", " ",
      "F", "i", "n", "a", "l", " ", "a", "n", "s", "w", "e", "r", ".", " ",
      "F", "i", "n", "a", "l", " ", "a", "n", "s", "w", "e", "r", ".">>

\* "a<think>a</think>a<think>a b"
ScenarioUnterminated ==
    <<"a", "<", "t", "h", "i", "n", "k", ">", "a", "<", "/", "t", "h", "i",
      "n", "k", ">", "a", "<", "t", "h", "i", "n", "k", ">", "a", " ", "b">>

ScenarioTexts ==
    { ScenarioHide, ScenarioNested, ScenarioTwoBlocks, ScenarioEllipsis,
      ScenarioContinues, ScenarioToBeContinued, ScenarioLong,
      ScenarioUnterminated }

\* The texts format_response is called with: every concatenation of at most
\* MaxPieces pieces, and the scenario texts.
Texts == PieceTexts(MaxPieces) \cup ScenarioTexts

\* width: the default of line 123 where format_thinking_block does not
\* read it, and two narrow widths where it does (4: width - 4 = 0).
DefaultWidth == 80

Widths == {4, 9}

TokenLimits == {None, <<25>>}

FormatIdle ==
    /\ pc = "idle"
    /\ text = <<>>
    /\ width = 0
    /\ show_thinking = FALSE
    /\ use_color = FALSE
    /\ tokens = None
    /\ thinking_blocks = <<>>
    /\ think_text = <<>>
    /\ is_truncated = FALSE
    /\ formatted = <<>>

DedupIdle ==
    /\ dpc = "idle"
    /\ dtext = <<>>
    /\ min_len = 0
    /\ paragraphs = <<>>
    /\ unique_paragraphs = <<>>
    /\ note_added = FALSE
    /\ deduped = <<>>

InitFormat ==
    /\ pc = "call"
    /\ text \in Texts
    /\ show_thinking \in BOOLEAN
    /\ use_color \in BOOLEAN
    /\ width \in (IF show_thinking /\ use_color THEN Widths
                  ELSE {DefaultWidth})
    /\ tokens \in TokenLimits
    /\ thinking_blocks = <<>>
    /\ think_text = <<>>
    /\ is_truncated = FALSE
    /\ formatted = <<>>
    /\ DedupIdle /\ UsageIdle /\ TrimIdle /\ CodeIdle /\ CliIdle

\* The call returns.
FormatResponse ==
    /\ pc = "call"
    /\ \E r \in {format_response(text, width, show_thinking, use_color,
                                 tokens)} :
           /\ r.ok
           /\ pc' = "returned"
           /\ thinking_blocks' = r.thinking_blocks
           /\ think_text' = r.think_text
           /\ is_truncated' = r.is_truncated
           /\ formatted' = r.out
    /\ UNCHANGED <<text, width, show_thinking, use_color, tokens, dvars,
                   uvars, tvars, bvars, pvars>>

\* The call raises (re.error from re.sub, ValueError from textwrap.wrap):
\* format_response catches neither.
FormatResponseRaises ==
    /\ pc = "call"
    /\ \E r \in {format_response(text, width, show_thinking, use_color,
                                 tokens)} :
           /\ ~r.ok
           /\ pc' = "raised"
           /\ thinking_blocks' = r.thinking_blocks
    /\ UNCHANGED <<text, width, show_thinking, use_color, tokens, think_text,
                   is_truncated, formatted, dvars, uvars, tvars, bvars,
                   pvars>>

NextFormat == FormatResponse \/ FormatResponseRaises

SpecFormat == InitFormat /\ [][NextFormat]_vars

(***************************************************************************)
(* detect_and_remove_repetition (src/archive/llama_query.py).              *)
(***************************************************************************)
\* COLORS (lines 20-30)
COLORS ==
    [reset |-> <<"ESC", "[", "0", "m">>,
     bold |-> <<"ESC", "[", "1", "m">>,
     green |-> <<"ESC", "[", "3", "2", "m">>,
     blue |-> <<"ESC", "[", "3", "4", "m">>,
     cyan |-> <<"ESC", "[", "3", "6", "m">>,
     yellow |-> <<"ESC", "[", "3", "3", "m">>,
     red |-> <<"ESC", "[", "3", "1", "m">>,
     magenta |-> <<"ESC", "[", "3", "5", "m">>,
     dim |-> <<"ESC", "[", "2", "m">>]

\* line 39
MIN_PARAGRAPH_LENGTH == 20

\* color_text (lines 41-43): COLORS.get(color, '') + text + COLORS['reset']
color_text(t, color) ==
    (IF color \in DOMAIN COLORS THEN COLORS[color] ELSE <<>>)
    \o t \o COLORS["reset"]

\* lines 52-64: the paragraphs of the lines still to read, current being
\* the lines of the paragraph that is open.  A line that is empty after
\* strip() closes the open paragraph; the other lines join it unchanged.
RECURSIVE ParagraphsOf(_, _)
ParagraphsOf(lines0, current0) ==
    Eval(lines0, LAMBDA lines : Eval(current0, LAMBDA current :
    Eval(IF current # <<>> THEN <<Join(current, <<"\n">>)>> ELSE <<>>,
         LAMBDA closed :
             IF lines = <<>> THEN closed
             ELSE IF Strip(lines[1]) = <<>>
             THEN closed \o ParagraphsOf(Tail(lines), <<>>)
             ELSE ParagraphsOf(Tail(lines), Append(current, lines[1])))))

\* lines 52-64 on text.split('\n')
SplitParagraphs(t) == ParagraphsOf(Split(t, "\n"), <<>>)

\* Mutant of IsEligible: every paragraph is deduplicated, short ones too.
IsEligibleAlways(p, min) == TRUE

\* line 76
IsEligible(p, min) == Len(Strip(p)) >= min

\* Mutant of AlreadySeen: paragraphs are compared after trimming.
AlreadySeenTrimmed(p, seen) == \E q \in seen : Strip(q) = Strip(p)

\* line 77: p in seen_paragraphs
AlreadySeen(p, seen) == p \in seen

\* lines 71-82: unique_paragraphs for the paragraphs still to read, seen
\* being seen_paragraphs.
RECURSIVE UniqueParagraphs(_, _, _)
UniqueParagraphs(ps0, seen0, min) ==
    Eval(ps0, LAMBDA ps : Eval(seen0, LAMBDA seen :
        IF ps = <<>> THEN <<>>
        ELSE IF IsEligible(ps[1], min)
        THEN IF ~AlreadySeen(ps[1], seen)
             THEN <<ps[1]>>
                  \o UniqueParagraphs(Tail(ps), seen \cup {ps[1]}, min)
             ELSE UniqueParagraphs(Tail(ps), seen, min)
        ELSE <<ps[1]>> \o UniqueParagraphs(Tail(ps), seen, min)))

\* Mutant of NeedsNote: <= for <.
NeedsNoteAtMost(kept, original) == 10 * kept <= 7 * original

\* Mutant of NeedsNote: the threshold 0.7 * original is rounded down to a
\* whole number of paragraphs before the comparison.
NeedsNoteRounded(kept, original) == kept < (7 * original) \div 10

\* line 85: len(unique_paragraphs) < len(paragraphs) * 0.7.  The double
\* product n * 0.7 lies below the next integer and not above 7n/10, so for
\* integer counts the comparison is the integer one.
NeedsNote(kept, original) == 10 * kept < 7 * original

\* line 86, the note before it is colored
repetition_note ==
    <<"\n", "(", "N", "o", "t", "e", ":", " ", "R", "e", "p", "e",
      "t", "i", "t", "i", "v", "e", " ", "c", "o", "n", "t", "e",
      "n", "t", " ", "w", "a", "s", " ", "r", "e", "m", "o", "v",
      "e", "d", " ", "f", "r", "o", "m", " ", "t", "h", "e", " ",
      "r", "e", "s", "p", "o", "n", "s", "e", ")">>

\* lines 45-88 with MIN_PARAGRAPH_LENGTH = min.  branch names the return
\* statement reached: "short" line 49, "few" line 68, "full" line 88.
detect_and_remove_repetition(t, min) ==
    IF Len(t) < min * 2
    THEN [branch |-> "short", paragraphs |-> <<>>,
          unique_paragraphs |-> <<>>, note_added |-> FALSE, out |-> t]
    ELSE
    Eval(SplitParagraphs(t), LAMBDA ps :
        IF Len(ps) <= 1
        THEN [branch |-> "few", paragraphs |-> ps,
              unique_paragraphs |-> <<>>, note_added |-> FALSE, out |-> t]
        ELSE
        Eval(UniqueParagraphs(ps, {}, min), LAMBDA unique :
        Eval(NeedsNote(Len(unique), Len(ps)), LAMBDA note :
            [branch |-> "full", paragraphs |-> ps,
             unique_paragraphs |-> unique, note_added |-> note,
             out |-> Join(IF note
                          THEN Append(unique,
                                      color_text(repetition_note, "dim"))
                          ELSE unique,
                          <<"\n", "\n">>)])))

(***************************************************************************)
(* Calls of detect_and_remove_repetition.                                  *)
(***************************************************************************)
MaxParagraphs == 4

\* 'ab'
ShortParagraph ==
    <<"a", "b">>

\* ' abc '
PaddedParagraph ==
    <<" ", "a", "b", "c", " ">>

\* 'ab\ncd'
TwoLineParagraph ==
    <<"a", "b", "\n", "c", "d">>

\* 'A paragraph.'
ParagraphA ==
    <<"A", " ", "p", "a", "r", "a", "g", "r", "a", "p", "h", ".">>

\* ' A paragraph.'
IndentedParagraphA ==
    <<" ", "A", " ", "p", "a", "r", "a", "g", "r", "a", "p", "h",
      ".">>

\* 'B paragraph.'
ParagraphB ==
    <<"B", " ", "p", "a", "r", "a", "g", "r", "a", "p", "h", ".">>

\* 'Repeated paragraph text.'
LongParagraph ==
    <<"R", "e", "p", "e", "a", "t", "e", "d", " ", "p", "a", "r",
      "a", "g", "r", "a", "p", "h", " ", "t", "e", "x", "t", ".">>

ParagraphPool ==
    {ShortParagraph, ParagraphA, IndentedParagraphA, LongParagraph}

\* What stands between two paragraphs: an empty line, or a line of one
\* space and an empty line.
Separators == { <<"\n", "\n">>, <<"\n", " ", "\n", "\n">> }

\* The lists of up to n paragraphs of the pool.
RECURSIVE ParagraphLists(_)
ParagraphLists(n) ==
    IF n = 0 THEN {<<>>}
    ELSE LET shorter == ParagraphLists(n - 1)
         IN  shorter \cup {Append(l, p) : l \in {x \in shorter : Len(x) = n - 1},
                                          p \in ParagraphPool}

\* "A paragraph.\n\nA paragraph.\n\nB paragraph."
ScenarioRepeat ==
    Join(<<ParagraphA, ParagraphA, ParagraphB>>, <<"\n", "\n">>)

\* Ten paragraphs, three of them second or later occurrences of the long
\* one: seven are kept, which is 0.7 x 10.
ScenarioBorderline ==
    Join(<<ParagraphA, ParagraphB, LongParagraph, LongParagraph,
           IndentedParagraphA, LongParagraph, TwoLineParagraph,
           LongParagraph, ShortParagraph, PaddedParagraph>>, <<"\n", "\n">>)

\* A paragraph of five characters, three after trimming, three times.
ScenarioPadded ==
    Join(<<PaddedParagraph, PaddedParagraph, ParagraphA, PaddedParagraph>>,
         <<"\n", "\n">>)

\* A paragraph of two lines, twice.
ScenarioTwoLines ==
    Join(<<TwoLineParagraph, ParagraphB, TwoLineParagraph>>, <<"\n", "\n">>)

\* A text that already ends with the note of line 86, after a paragraph
\* that occurs three times.
ScenarioNoted ==
    Join(<<ShortParagraph, LongParagraph, LongParagraph, LongParagraph,
           color_text(repetition_note, "dim")>>, <<"\n", "\n">>)

DedupTexts ==
    {Join(l, sep) : l \in ParagraphLists(MaxParagraphs), sep \in Separators}
    \cup {ScenarioRepeat, ScenarioBorderline, ScenarioPadded,
          ScenarioTwoLines, ScenarioNoted}

\* MIN_PARAGRAPH_LENGTH as the module sets it, and as the scenario sets it.
MinLengths == {MIN_PARAGRAPH_LENGTH, 5}

InitDedup ==
    /\ dpc = "call"
    /\ dtext \in DedupTexts
    /\ min_len \in MinLengths
    /\ paragraphs = <<>>
    /\ unique_paragraphs = <<>>
    /\ note_added = FALSE
    /\ deduped = <<>>
    /\ FormatIdle /\ UsageIdle /\ TrimIdle /\ CodeIdle /\ CliIdle

\* The call returns at line 49: the text is shorter than two minimum
\* paragraphs.
DedupReturnsShortText ==
    /\ dpc = "call"
    /\ \E r \in {detect_and_remove_repetition(dtext, min_len)} :
           /\ r.branch = "short"
           /\ deduped' = r.out
    /\ dpc' = "returned"
    /\ UNCHANGED <<dtext, min_len, paragraphs, unique_paragraphs, note_added,
                   fvars, uvars, tvars, bvars, pvars>>

\* The call returns at line 68: at most one paragraph.
DedupReturnsFewParagraphs ==
    /\ dpc = "call"
    /\ \E r \in {detect_and_remove_repetition(dtext, min_len)} :
           /\ r.branch = "few"
           /\ paragraphs' = r.paragraphs
           /\ deduped' = r.out
    /\ dpc' = "returned"
    /\ UNCHANGED <<dtext, min_len, unique_paragraphs, note_added, fvars,
                   uvars, tvars, bvars, pvars>>

\* The call returns at line 88.
DedupReturns ==
    /\ dpc = "call"
    /\ \E r \in {detect_and_remove_repetition(dtext, min_len)} :
           /\ r.branch = "full"
           /\ paragraphs' = r.paragraphs
           /\ unique_paragraphs' = r.unique_paragraphs
           /\ note_added' = r.note_added
           /\ deduped' = r.out
    /\ dpc' = "returned"
    /\ UNCHANGED <<dtext, min_len, fvars, uvars, tvars, bvars, pvars>>

NextDedup ==
    DedupReturnsShortText \/ DedupReturnsFewParagraphs \/ DedupReturns

SpecDedup == InitDedup /\ [][NextDedup]_vars

(***************************************************************************)
(* Claims about format_response.                                           *)
(***************************************************************************)
\* The text the thinking-block handling starts from (after line 127).
Stripped == StripMarkers(text)

\* s with, for each block in order, the next "<think>" + block + "</think>"
\* replaced by the block's entry in repls.
RECURSIVE SubstituteRegions(_, _, _)
SubstituteRegions(s, blocks, repls) ==
    IF blocks = <<>> THEN s
    ELSE LET region == think_open \o blocks[1] \o think_close
             i == Find(s, region, 1)
         IN  SubSeq(s, 1, i - 1) \o repls[1]
             \o SubstituteRegions(Tail_(s, i + Len(region)), Tail(blocks),
                                  Tail(repls))

Nothing(blocks) == [k \in 1..Len(blocks) |-> <<>>]

RECURSIVE RegionChars(_)
RegionChars(blocks) ==
    IF blocks = <<>> THEN 0
    ELSE Len(think_open) + Len(blocks[1]) + Len(think_close)
         + RegionChars(Tail(blocks))

FinalAnswer ==
    <<"F", "i", "n", "a", "l", " ", "a", "n", "s", "w", "e", "r", ".">>

\* C1: with show-thinking disabled, the thinking-block handling deletes
\* every matched <think>...</think> region, tags and interior, and puts
\* nothing in its place; "<think>reasoning here</think>Final answer." with no
\* token ceiling is returned as exactly "Final answer.".
C1_HideDeletesRegions ==
    (pc = "returned" /\ ~show_thinking) =>
        /\ think_text = SubstituteRegions(Stripped, thinking_blocks,
                                       Nothing(thinking_blocks))
        /\ Len(think_text) = Len(Stripped) - RegionChars(thinking_blocks)
        /\ (text = ScenarioHide /\ tokens = None => formatted = FinalAnswer)

C1_Witness ==
    /\ pc = "returned"
    /\ ~show_thinking
    /\ Len(thinking_blocks) = 2
    /\ think_text # <<>>
    /\ think_text = SubstituteRegions(Stripped, thinking_blocks,
                                       Nothing(thinking_blocks))

\* s is cut into regions exactly as blocks says: each region starts at the
\* leftmost opening tag after the previous region and ends at the first
\* closing tag after that opening tag, and what follows the last region
\* holds no opening tag with a closing tag after it.
RECURSIVE IsLeftmostExtraction(_, _)
IsLeftmostExtraction(s, blocks) ==
    LET o == Find(s, think_open, 1)
    IN  IF blocks = <<>>
        THEN o = 0 \/ Find(s, think_close, o + Len(think_open)) = 0
        ELSE /\ o # 0
             /\ StartsWithAt(s, o + Len(think_open),
                             blocks[1] \o think_close)
             /\ ~Contains(blocks[1], think_close)
             /\ IsLeftmostExtraction(
                    Tail_(s, o + Len(think_open) + Len(blocks[1])
                              + Len(think_close)),
                    Tail(blocks))

\* "a<think>b"
NestedBlock == <<"a", "<", "t", "h", "i", "n", "k", ">", "b">>

\* C3 as stated: each closing tag terminates the nearest preceding opening
\* tag, so no extracted block holds an opening tag and the block of
\* "<think>a<think>b</think>" is "b".
C3_NearestOpeningTag ==
    pc \in {"returned", "raised"} =>
        /\ \A k \in 1..Len(thinking_blocks) :
               ~Contains(thinking_blocks[k], think_open)
        /\ (text = ScenarioNested => thinking_blocks = << <<"b">> >>)

\* C3 (amended): the extractor returns all non-overlapping regions in
\* left-to-right order; each region starts at the leftmost opening tag not
\* inside an earlier region and ends at the first closing tag after it, so
\* the block of "<think>a<think>b</think>" is "a<think>b".
C3_LeftmostOpeningTag ==
    pc \in {"returned", "raised"} =>
        /\ IsLeftmostExtraction(Stripped, thinking_blocks)
        /\ (text = ScenarioNested => thinking_blocks = <<NestedBlock>>)

C3_Witness ==
    /\ pc = "returned"
    /\ text = ScenarioNested
    /\ thinking_blocks = <<NestedBlock>>

\* The opening tags of s with no closing tag after them.
UnterminatedAt(s) ==
    {o \in 1..Len(s) : /\ StartsWithAt(s, o, think_open)
                       /\ Find(s, think_close, o + Len(think_open)) = 0}

\* s holds no angle bracket and no run of three newlines: the final
\* clean-up (lines 158-161) cannot touch it.
IsPlain(s) ==
    /\ \A i \in 1..Len(s) : s[i] \notin {"<", ">"}
    /\ ~Contains(s, <<"\n", "\n", "\n">>)

\* C4 as stated: with show-thinking disabled, everything after an
\* unterminated opening tag is thinking content, so the document is the one
\* of the text cut at that tag.
C4_UnterminatedStaysOpen ==
    (pc = "returned" /\ ~show_thinking /\ tokens = None
        /\ UnterminatedAt(Stripped) # {}) =>
        LET o == Min(UnterminatedAt(Stripped))
        IN  formatted = format_response(SubSeq(Stripped, 1, o - 1), width,
                                        show_thinking, use_color, tokens).out

\* A call that returns with show-thinking disabled although the text after
\* an unterminated opening tag is in the returned document.
C4_Witness ==
    /\ pc = "returned"
    /\ ~show_thinking
    /\ thinking_blocks # <<>>
    /\ UnterminatedAt(Stripped) # {}
    /\ LET after == Tail_(Stripped,
                          Min(UnterminatedAt(Stripped)) + Len(think_open))
       IN  /\ Strip(after) # <<>>
           /\ IsPlain(after)
           /\ Contains(formatted, after)

\* The five indicators of C5.
C5_Indicators ==
    { <<".", ".", ".">>,
      <<"ELLIPSIS">>,
      <<"t", "o", " ", "b", "e", " ", "c", "o", "n", "t", "i", "n", "u", "e", "d">>,
      <<"c", "o", "n", "t">>,
      <<"c", "o", "n", "t", "i", "n", "u", "e", "s">> }

\* The text after the thinking-block handling, right-trimmed, ends with one
\* of the five indicators.
C5_EndsWithIndicator ==
    \E ind \in C5_Indicators : EndsWith(RStrip(think_text), ind)

\* The returned document ends with the truncation note.
NoteAppended == EndsWith(formatted, TruncationSuffix(use_color))

\* C5: with no token ceiling, the truncation note is appended if and only
\* if the right-trimmed text after the thinking-block handling ends with
\* one of the five indicators.
C5_NoteIffIndicator ==
    (pc = "returned" /\ tokens = None) =>
        /\ is_truncated <=> C5_EndsWithIndicator
        /\ NoteAppended <=> C5_EndsWithIndicator

C5_Witness ==
    /\ pc = "returned"
    /\ tokens = None
    /\ EndsWith(RStrip(think_text), <<".", ".", ".">>)
    /\ RStrip(think_text) # think_text
    /\ NoteAppended

\* C6 as stated: with a ceiling and no indicator, the response is flagged
\* exactly when the text length is within 20 characters of the ceiling.
C6_WithinTwentyOfCeiling ==
    (pc = "returned" /\ tokens # None /\ ~C5_EndsWithIndicator) =>
        (is_truncated <=>
            /\ Len(think_text) >= tokens[1] - 20
            /\ Len(think_text) <= tokens[1] + 20)

\* C6 (amended): with a ceiling and no indicator, the response is flagged
\* exactly when the text length is at least the ceiling minus 20: every
\* text longer than the ceiling is flagged too, however much longer.
C6_AtLeastCeilingMinusTwenty ==
    (pc = "returned" /\ tokens # None /\ ~C5_EndsWithIndicator) =>
        /\ is_truncated <=> Len(think_text) >= tokens[1] - 20
        /\ NoteAppended <=> Len(think_text) >= tokens[1] - 20

C6_Witness ==
    /\ pc = "returned"
    /\ tokens # None
    /\ ~show_thinking
    /\ ~C5_EndsWithIndicator
    /\ Len(think_text) > tokens[1] + 20
    /\ is_truncated
    /\ NoteAppended

\* The panels of the blocks at the width of the call.
PanelsOf(blocks) ==
    [k \in 1..Len(blocks) |-> format_thinking_block(blocks[k], width).s]

\* A call with show-thinking enabled that raises: a block holds a backslash,
\* which re.sub (line 140) reads as the start of an escape in its
\* replacement template.
C2_Witness ==
    /\ pc = "raised"
    /\ show_thinking
    /\ thinking_blocks = << <<"\\">> >>

\* C2: with show-thinking enabled, whatever the color toggle, every
\* extracted block is replaced in place by a bordered panel titled
\* "THINKING PROCESS" that holds the block's text.
C2_ShowReplacesBlocksByPanels ==
    (pc # "call" /\ show_thinking /\ thinking_blocks # <<>>) =>
        /\ pc = "returned"
        /\ think_text = SubstituteRegions(Stripped, thinking_blocks,
                                       PanelsOf(thinking_blocks))
        /\ Contains(think_text, panel_title)

(***************************************************************************)
(* Claims about detect_and_remove_repetition.                              *)
(***************************************************************************)
\* The paragraphs of the argument and of the returned text.
InputParagraphs == SplitParagraphs(dtext)
OutputParagraphs == SplitParagraphs(deduped)

\* p is below the minimum length after trimming.
IsShort(p) == Len(Strip(p)) < min_len

ShortOnes(ps) == SelectSeq(ps, IsShort)

\* C7: no paragraph whose trimmed length is below the minimum is ever
\* removed, however often it occurs: the short paragraphs of the returned
\* text are the short paragraphs of the input, occurrence by occurrence.
C7_ShortParagraphsNeverRemoved ==
    dpc = "returned" =>
        ShortOnes(OutputParagraphs) = ShortOnes(InputParagraphs)

C7_Witness ==
    /\ dpc = "returned"
    /\ min_len = MIN_PARAGRAPH_LENGTH
    /\ Len(unique_paragraphs) < Len(paragraphs)
    /\ \E i, j \in 1..Len(OutputParagraphs) :
           /\ i < j
           /\ OutputParagraphs[i] = OutputParagraphs[j]
           /\ IsShort(OutputParagraphs[i])

\* Paragraph i of ps is kept: it is short, or no earlier paragraph has
\* exactly its text.
IsKept(ps, i) == IsShort(ps[i]) \/ \A j \in 1..(i - 1) : ps[j] # ps[i]

KeptIndices(ps) == {i \in 1..Len(ps) : IsKept(ps, i)}

\* The paragraphs of ps at the indices of I, in the order of ps.
Subsequence(ps, I) ==
    LET idx == SelectSeq([i \in 1..Len(ps) |-> i], LAMBDA i : i \in I)
    IN  [k \in 1..Len(idx) |-> ps[idx[k]]]

\* No eligible paragraph of ps has the text of an earlier paragraph.
HasNoDuplicates(ps) == KeptIndices(ps) = 1..Len(ps)

\* The call takes neither early return (lines 48 and 67).
IsProcessed == Len(dtext) >= min_len * 2 /\ Len(InputParagraphs) > 1

\* C8: the kept list is the paragraph list without the second and later
\* occurrences of eligible paragraphs, compared by exact text equality, in
\* the order of the input; a list with no duplicates is kept as it is.
C8_FirstOccurrencesInOrder ==
    dpc = "returned" =>
        IF IsProcessed
        THEN /\ paragraphs = InputParagraphs
             /\ unique_paragraphs
                    = Subsequence(paragraphs, KeptIndices(paragraphs))
             /\ HasNoDuplicates(paragraphs)
                    => unique_paragraphs = paragraphs
             /\ StartsWithAt(deduped, 1,
                             Join(unique_paragraphs, <<"\n", "\n">>))
        ELSE deduped = dtext

C8_Witness ==
    /\ dpc = "returned"
    /\ paragraphs
           = <<ParagraphA, IndentedParagraphA, ParagraphA, LongParagraph>>
    /\ unique_paragraphs
           = <<ParagraphA, IndentedParagraphA, LongParagraph>>

\* The number of occurrences of p in s.
RECURSIVE CountOccurrences(_, _)
CountOccurrences(s, p) ==
    LET i == Find(s, p, 1)
    IN  IF i = 0 THEN 0
        ELSE 1 + CountOccurrences(Tail_(s, i + Len(p)), p)

NoteCount == CountOccurrences(deduped, repetition_note)

\* The notes the kept paragraphs of the input hold already.
NotesKept ==
    CountOccurrences(
        Join(Subsequence(InputParagraphs, KeptIndices(InputParagraphs)),
             <<"\n", "\n">>),
        repetition_note)

\* Fewer than 0.7 x the paragraphs of the input are kept, both counts over
\* all paragraphs, short ones included.
KeptBelowSeventyPercent ==
    10 * Cardinality(KeptIndices(InputParagraphs))
        < 7 * Len(InputParagraphs)

\* C9: the advisory note is appended, exactly once, if and only if
\* kept_count < 0.7 x original_count, the counts being those of the full
\* paragraph lists: the returned text holds one note more than the kept
\* paragraphs of the input in that case, and as many as they otherwise.
C9_NoteIffBelowSeventyPercent ==
    dpc = "returned" =>
        /\ note_added <=> KeptBelowSeventyPercent
        /\ NoteCount = NotesKept + IF KeptBelowSeventyPercent THEN 1 ELSE 0
        /\ KeptBelowSeventyPercent
               => EndsWith(deduped, color_text(repetition_note, "dim"))

C9_Witness ==
    /\ dpc = "returned"
    /\ min_len = MIN_PARAGRAPH_LENGTH
    /\ note_added
    /\ NoteCount = 1
    /\ \E i \in 1..Len(unique_paragraphs) : IsShort(unique_paragraphs[i])
    /\ 10 * Len(unique_paragraphs) < 7 * Len(paragraphs)

\* "A paragraph.\n\nB paragraph."
C10_Deduplicated ==
    <<"A", " ", "p", "a", "r", "a", "g", "r", "a", "p", "h", ".",
      "\n", "\n", "B", " ", "p", "a", "r", "a", "g", "r", "a", "p",
      "h", ".">>

\* "A paragraph.\n\nB paragraph.\n\n" and the note in the dim color
C10_DeduplicatedWithNote ==
    <<"A", " ", "p", "a", "r", "a", "g", "r", "a", "p", "h", ".",
      "\n", "\n", "B", " ", "p", "a", "r", "a", "g", "r", "a", "p",
      "h", ".", "\n", "\n", "ESC", "[", "2", "m", "\n", "(", "N", "o",
      "t", "e", ":", " ", "R", "e", "p", "e", "t", "i", "t", "i",
      "v", "e", " ", "c", "o", "n", "t", "e", "n", "t", " ", "w",
      "a", "s", " ", "r", "e", "m", "o", "v", "e", "d", " ", "f",
      "r", "o", "m", " ", "t", "h", "e", " ", "r", "e", "s", "p",
      "o", "n", "s", "e", ")", "ESC", "[", "0", "m">>

\* The call of the scenario of C10.
C10_Scenario ==
    /\ dpc = "returned"
    /\ dtext = ScenarioRepeat
    /\ min_len = 5

\* C10 as stated: with minimum length 5, "A paragraph.\n\nA paragraph.\n\n
\* B paragraph." yields exactly "A paragraph.\n\nB paragraph." and no
\* advisory note.
C10_NoAdvisoryNote ==
    C10_Scenario => deduped = C10_Deduplicated /\ ~note_added

\* C10 (amended): with minimum length 5, the text keeps 2 of its 3
\* paragraphs, and 2 is less than 0.7 x 3 = 2.1: the result is
\* "A paragraph.\n\nB paragraph." followed by an empty line and the advisory
\* note.
C10_ScenarioGetsNote ==
    C10_Scenario =>
        /\ unique_paragraphs = <<ParagraphA, ParagraphB>>
        /\ Len(paragraphs) = 3
        /\ note_added
        /\ deduped = C10_DeduplicatedWithNote

C10_Witness ==
    /\ C10_Scenario
    /\ StartsWithAt(deduped, 1, C10_Deduplicated)
    /\ NoteCount = 1

(***************************************************************************)
(* trim_prompt_repetition (src/archive/llama_query.py).                    *)
(***************************************************************************)
\* s.split(sep) for a non-empty sep of any length.
RECURSIVE SplitBy(_, _)
SplitBy(s0, sep) ==
    Eval(s0, LAMBDA s : Eval(Find(s, sep, 1), LAMBDA i :
        IF i = 0 THEN <<s>>
        ELSE <<SubSeq(s, 1, i - 1)>> \o SplitBy(Tail_(s, i + Len(sep)), sep)))

\* lines 90-96.  prompt in text holds for the empty prompt, and
\* text.split('') raises ValueError("empty separator").
trim_prompt_repetition(t, prompt) ==
    IF Contains(t, prompt)
    THEN IF prompt = <<>>
         THEN [ok |-> FALSE, s |-> <<>>]
         ELSE [ok |-> TRUE, s |-> Strip(SplitBy(t, prompt)[1])]
    ELSE [ok |-> TRUE, s |-> t]

MaxTrimPieces == 3

\* "hi"
PromptHi == <<"h", "i">>

TrimPieces == { PromptHi, <<"h">>, <<"a">>, <<" ">>, <<"\n">> }

RECURSIVE TrimTexts(_)
TrimTexts(n) ==
    IF n = 0 THEN {<<>>}
    ELSE LET shorter == TrimTexts(n - 1)
         IN  shorter \cup {s \o p : s \in shorter, p \in TrimPieces}

Prompts == { <<>>, PromptHi, <<"a">>, <<" ">>, <<"a", " ", "h", "i">> }

InitTrim ==
    /\ tpc = "call"
    /\ ttext \in TrimTexts(MaxTrimPieces)
    /\ tprompt \in Prompts
    /\ trimmed = <<>>
    /\ FormatIdle /\ DedupIdle /\ UsageIdle /\ CodeIdle /\ CliIdle

\* The call returns (line 95 or line 96).
TrimReturns ==
    /\ tpc = "call"
    /\ \E r \in {trim_prompt_repetition(ttext, tprompt)} :
           /\ r.ok
           /\ trimmed' = r.s
    /\ tpc' = "returned"
    /\ UNCHANGED <<ttext, tprompt, fvars, dvars, uvars, bvars, pvars>>

\* line 93 raises ValueError.
TrimRaises ==
    /\ tpc = "call"
    /\ \E r \in {trim_prompt_repetition(ttext, tprompt)} : ~r.ok
    /\ tpc' = "raised"
    /\ UNCHANGED <<ttext, tprompt, trimmed, fvars, dvars, uvars, bvars,
                   pvars>>

NextTrim == TrimReturns \/ TrimRaises

SpecTrim == InitTrim /\ [][NextTrim]_vars

(***************************************************************************)
(* Claims about trim_prompt_repetition.                                    *)
(***************************************************************************)
\* The positions of ttext where tprompt occurs.
PromptOccurrences ==
    {i \in 1..(Len(ttext) + 1) : StartsWithAt(ttext, i, tprompt)}

\* C11: for every text and every prompt, the empty prompt included, the
\* call returns a string: the text before the first occurrence of the
\* prompt, trimmed, if the prompt occurs in the text, and the text itself
\* if it does not.
C11_TrimReturnsPrefixOrText ==
    tpc # "call" =>
        /\ tpc = "returned"
        /\ trimmed = IF PromptOccurrences = {} THEN ttext
                     ELSE Strip(SubSeq(ttext, 1, Min(PromptOccurrences) - 1))

\* A call with the empty prompt: it raises.
C11_Witness ==
    /\ tpc = "raised"
    /\ tprompt = <<>>
    /\ ttext # <<>>

(***************************************************************************)
(* format_code_blocks and wrap_text (src/archive/llama_query.py), one loop *)
(* iteration at a time.  main (lines 288-289) passes the result of         *)
(* format_code_blocks to wrap_text; wrap_text is also called on its own.   *)
(***************************************************************************)
\* line 103
code_fence_pattern == <<"BACKTICK", "BACKTICK", "BACKTICK">>

\* Mutant of IsFenceLine: the line is not trimmed before the test.
IsFenceLineNoStrip(line) == StartsWithAt(line, 1, code_fence_pattern)

\* line 107: line.strip().startswith(code_fence_pattern)
IsFenceLine(line) == StartsWithAt(Strip(line), 1, code_fence_pattern)

\* line 110: line.strip()[3:].strip()
lang_part(line) == Strip(Tail_(Strip(line), Len(code_fence_pattern) + 1))

\* lines 112 and 115
code_header(lang) ==
    IF lang # <<>>
    THEN color_text(<<"BOX_TL", "BOX_H", " ", "C", "o", "d", "e", " ", "(">>
                    \o lang \o <<")", " ">>, "yellow")
    ELSE color_text(<<"BOX_TL", "BOX_H", " ", "C", "o", "d", "e", " ">>,
                    "yellow")

\* lines 113, 116 and 118
code_border == color_text(<<"BOX_V">>, "yellow")

\* line 119
code_footer ==
    color_text(<<"BOX_BL", "BOX_H", "BOX_H", "BOX_H", "BOX_H", "BOX_H",
                 "BOX_H", "BOX_H", "BOX_H", "BOX_H">>, "yellow")

\* Mutant of code_line: the line is emitted as it is.
code_line_plain(line) == line

\* line 122
code_line(line) ==
    color_text(<<"BOX_V", " ">>, "yellow") \o color_text(line, "cyan")

\* line 100: the lines format_code_blocks reads
CodeLines == Split(btext, "\n")

\* the line the iteration of line 105 reads next
CodeLine == CodeLines[line_no + 1]

\* What one iteration leaves alone.
CodeStepFrame ==
    /\ bpc' = bpc
    /\ line_no' = line_no + 1
    /\ UNCHANGED <<btext, bwidth, wtext, wrap_no, wrap_in_code_block,
                   wrapped_lines, fvars, dvars, uvars, tvars, pvars>>

\* lines 107-116: a fence line read outside a block opens one.
OpenFence ==
    /\ bpc = "format"
    /\ line_no < Len(CodeLines)
    /\ IsFenceLine(CodeLine)
    /\ ~in_code_block
    /\ in_code_block' = TRUE
    /\ formatted_lines' = formatted_lines
           \o <<code_header(lang_part(CodeLine)), code_border>>
    /\ emitted' = emitted \o <<"header", "border">>
    /\ CodeStepFrame

\* lines 107-110 and 117-119: a fence line read inside a block closes it.
CloseFence ==
    /\ bpc = "format"
    /\ line_no < Len(CodeLines)
    /\ IsFenceLine(CodeLine)
    /\ in_code_block
    /\ in_code_block' = FALSE
    /\ formatted_lines' = formatted_lines \o <<code_border, code_footer>>
    /\ emitted' = emitted \o <<"border", "closing">>
    /\ CodeStepFrame

\* lines 120-122: a line inside a block.
CodeInside ==
    /\ bpc = "format"
    /\ line_no < Len(CodeLines)
    /\ ~IsFenceLine(CodeLine)
    /\ in_code_block
    /\ formatted_lines' = Append(formatted_lines, code_line(CodeLine))
    /\ emitted' = Append(emitted, "code")
    /\ UNCHANGED in_code_block
    /\ CodeStepFrame

\* lines 123-125: a line outside a block.
CodeOutside ==
    /\ bpc = "format"
    /\ line_no < Len(CodeLines)
    /\ ~IsFenceLine(CodeLine)
    /\ ~in_code_block
    /\ formatted_lines' = Append(formatted_lines, CodeLine)
    /\ emitted' = Append(emitted, "plain")
    /\ UNCHANGED in_code_block
    /\ CodeStepFrame

\* line 127, and main's call of wrap_text on the result (line 289).
FormatCodeReturns ==
    /\ bpc = "format"
    /\ line_no = Len(CodeLines)
    /\ wtext' = Join(formatted_lines, <<"\n">>)
    /\ bpc' = "wrap"
    /\ UNCHANGED <<btext, bwidth, line_no, in_code_block, formatted_lines,
                   emitted, wrap_no, wrap_in_code_block, wrapped_lines,
                   fvars, dvars, uvars, tvars, pvars>>

\* line 139: the prefix of a line that is not wrapped
wrap_prefix == <<"BOX_V", " ">>

\* line 131: the lines wrap_text reads
WrapLines == Split(wtext, "\n")

\* the line the iteration of line 135 reads next
WrapLineRead == WrapLines[wrap_no + 1]

WrapStepFrame ==
    /\ wrap_no' = wrap_no + 1
    /\ UNCHANGED <<btext, bwidth, line_no, in_code_block, formatted_lines,
                   emitted, wtext, fvars, dvars, uvars, tvars, pvars>>

\* lines 136-138: a line that starts with the fence marker.
WrapFence ==
    /\ bpc = "wrap"
    /\ wrap_no < Len(WrapLines)
    /\ StartsWithAt(WrapLineRead, 1, code_fence_pattern)
    /\ wrap_in_code_block' = ~wrap_in_code_block
    /\ wrapped_lines' = Append(wrapped_lines, WrapLineRead)
    /\ bpc' = bpc
    /\ WrapStepFrame

\* lines 139-141: a line inside a fence, or one with the border prefix.
WrapKeeps ==
    /\ bpc = "wrap"
    /\ wrap_no < Len(WrapLines)
    /\ ~StartsWithAt(WrapLineRead, 1, code_fence_pattern)
    /\ wrap_in_code_block \/ StartsWithAt(WrapLineRead, 1, wrap_prefix)
    /\ wrapped_lines' = Append(wrapped_lines, WrapLineRead)
    /\ UNCHANGED <<bpc, wrap_in_code_block>>
    /\ WrapStepFrame

\* The line is handed to textwrap.wrap (line 147) or kept as blank.
IsRegularLine(line) ==
    /\ ~StartsWithAt(line, 1, code_fence_pattern)
    /\ ~wrap_in_code_block
    /\ ~StartsWithAt(line, 1, wrap_prefix)

\* lines 144-145: a blank regular line.
WrapBlank ==
    /\ bpc = "wrap"
    /\ wrap_no < Len(WrapLines)
    /\ IsRegularLine(WrapLineRead)
    /\ Strip(WrapLineRead) = <<>>
    /\ wrapped_lines' = Append(wrapped_lines, WrapLineRead)
    /\ UNCHANGED <<bpc, wrap_in_code_block>>
    /\ WrapStepFrame

\* lines 146-148: a regular line is wrapped.
WrapWraps ==
    /\ bpc = "wrap"
    /\ wrap_no < Len(WrapLines)
    /\ IsRegularLine(WrapLineRead)
    /\ Strip(WrapLineRead) # <<>>
    /\ bwidth >= 1
    /\ \E wrapped_parts \in {Wrap(WrapLineRead, bwidth)} :
           wrapped_lines' = wrapped_lines
               \o (IF wrapped_parts # <<>> THEN wrapped_parts ELSE << <<>> >>)
    /\ UNCHANGED <<bpc, wrap_in_code_block>>
    /\ WrapStepFrame

\* line 147: textwrap.wrap raises ValueError for a width below 1.
WrapRaises ==
    /\ bpc = "wrap"
    /\ wrap_no < Len(WrapLines)
    /\ IsRegularLine(WrapLineRead)
    /\ Strip(WrapLineRead) # <<>>
    /\ bwidth < 1
    /\ bpc' = "raised"
    /\ UNCHANGED <<wrap_no, wrap_in_code_block, wrapped_lines, btext, bwidth,
                   line_no, in_code_block, formatted_lines, emitted, wtext,
                   fvars, dvars, uvars, tvars, pvars>>

\* line 150
WrapReturns ==
    /\ bpc = "wrap"
    /\ wrap_no = Len(WrapLines)
    /\ bpc' = "returned"
    /\ UNCHANGED <<wrap_no, wrap_in_code_block, wrapped_lines, btext, bwidth,
                   line_no, in_code_block, formatted_lines, emitted, wtext,
                   fvars, dvars, uvars, tvars, pvars>>

MaxCodeLines == 3

\* "x = 1"
ShortCode == <<"x", " ", "=", " ", "1">>

\* "print(a, b, c)"
LongCode ==
    <<"p", "r", "i", "n", "t", "(", "a", ",", " ", "b", ",", " ", "c", ")">>

\* The lines of the texts: a bare fence line, an indented fence line with a
\* language tag, a short and a longer line, the empty line.
LinePool ==
    { code_fence_pattern,
      <<" ", " ">> \o code_fence_pattern \o <<"p", "y", " ">>,
      ShortCode, LongCode, <<>> }

RECURSIVE LineLists(_)
LineLists(n) ==
    IF n = 0 THEN {<<>>}
    ELSE LET shorter == LineLists(n - 1)
         IN  shorter \cup {Append(l, p) : l \in {x \in shorter : Len(x) = n - 1},
                                          p \in LinePool}

CodeTexts == {Join(l, <<"\n">>) : l \in LineLists(MaxCodeLines)}

CodeWidths == {0, 1, 30}

\* Either main formats the text and wraps the result, or wrap_text is
\* called on the text itself.
InitCode ==
    /\ btext \in CodeTexts
    /\ bpc \in {"format", "wrap"}
    /\ bwidth \in (IF bpc = "format" THEN CodeWidths ELSE {30})
    /\ wtext = IF bpc = "wrap" THEN btext ELSE <<>>
    /\ line_no = 0
    /\ in_code_block = FALSE
    /\ formatted_lines = <<>>
    /\ emitted = <<>>
    /\ wrap_no = 0
    /\ wrap_in_code_block = FALSE
    /\ wrapped_lines = <<>>
    /\ FormatIdle /\ DedupIdle /\ UsageIdle /\ TrimIdle /\ CliIdle

NextCode ==
    \/ OpenFence \/ CloseFence \/ CodeInside \/ CodeOutside
    \/ FormatCodeReturns
    \/ WrapFence \/ WrapKeeps \/ WrapBlank \/ WrapWraps \/ WrapRaises
    \/ WrapReturns

SpecCode == InitCode /\ [][NextCode]_vars

(***************************************************************************)
(* Claims about format_code_blocks and wrap_text.                          *)
(***************************************************************************)
\* The position of the first character of line that is not whitespace, if
\* the three characters from there on are the fence marker; 0 otherwise.
FenceAt(line) ==
    LET starts == {j \in 1..(Len(line) - 2) :
                       /\ \A i \in 1..(j - 1) : IsSpace(line[i])
                       /\ ~IsSpace(line[j])
                       /\ SubSeq(line, j, j + 2)
                              = <<"BACKTICK", "BACKTICK", "BACKTICK">>}
    IN  IF starts = {} THEN 0 ELSE Min(starts)

\* How many of the first k lines of the text are fence lines.
FenceCount(k) == Cardinality({i \in 1..k : FenceAt(CodeLines[i]) # 0})

IsOdd(n) == n % 2 = 1

\* "\033[33m" and "\033[0m", "\033[36m"
C13_Yellow == <<"ESC", "[", "3", "3", "m">>
C13_Reset == <<"ESC", "[", "0", "m">>
C13_Cyan == <<"ESC", "[", "3", "6", "m">>

\* What the k-th line of the text becomes.
ExpectedFor(k) ==
    LET line == CodeLines[k]
        tag == Strip(Tail_(line, FenceAt(line) + 3))
        border_line == C13_Yellow \o <<"BOX_V">> \o C13_Reset
    IN  IF FenceAt(line) # 0
        THEN IF IsOdd(FenceCount(k))
             THEN << C13_Yellow
                     \o <<"BOX_TL", "BOX_H", " ", "C", "o", "d", "e", " ">>
                     \o (IF tag # <<>> THEN <<"(">> \o tag \o <<")", " ">>
                         ELSE <<>>)
                     \o C13_Reset,
                     border_line >>
             ELSE << border_line,
                     C13_Yellow \o <<"BOX_BL">> \o Repeat("BOX_H", 9)
                     \o C13_Reset >>
        ELSE IF IsOdd(FenceCount(k))
             THEN << C13_Yellow \o <<"BOX_V", " ">> \o C13_Reset
                     \o C13_Cyan \o line \o C13_Reset >>
             ELSE <<line>>

RECURSIVE ExpectedLines(_)
ExpectedLines(k) ==
    IF k = 0 THEN <<>> ELSE ExpectedLines(k - 1) \o ExpectedFor(k)

\* C13: one boolean state, false at the start, toggled by exactly the lines
\* whose trimmed content starts with the fence marker.  An opening fence
\* line becomes a header line (with the language tag, if one follows the
\* marker) and a border line, a closing fence line a border line and a
\* closing line, a line read inside is emitted once with the border
\* prefix, a line read outside is emitted unchanged.
C13_FenceStateMachine ==
    bpc # "idle" =>
        /\ in_code_block = IsOdd(FenceCount(line_no))
        /\ formatted_lines = ExpectedLines(line_no)

C13_Witness ==
    /\ bpc = "wrap"
    /\ emitted = <<"header", "border", "code", "border", "closing">>
    /\ Contains(formatted_lines[1], <<"(", "p", "y", ")">>)
    /\ CodeLines[3] # code_fence_pattern
    /\ ~in_code_block

\* C12: wrap_text, applied to the result of format_code_blocks with a width
\* of at least 1, hands on every line that format_code_blocks emitted for
\* a line inside a fence as it is, whatever its length.
C12_InFenceLinesVerbatim ==
    (bpc \in {"wrap", "returned"} /\ bwidth >= 1) =>
        \A i \in 1..Min({wrap_no, Len(emitted)}) :
            emitted[i] = "code" =>
                \E j \in 1..Len(wrapped_lines) :
                    wrapped_lines[j] = formatted_lines[i]

\* wrap_text has returned and a line emitted for a line inside a fence is
\* not among its lines: it was handed to textwrap.wrap and split.
C12_Witness ==
    /\ bpc = "returned"
    /\ bwidth = 30
    /\ \E i \in 1..Len(emitted) :
           /\ emitted[i] = "code"
           /\ formatted_lines[i] = code_line(LongCode)
           /\ \A j \in 1..Len(wrapped_lines) :
                  wrapped_lines[j] # formatted_lines[i]


(***************************************************************************)
(* format_response with show_counts (src/query-llama.py lines 163-252) and *)
(* count_tokens_in_text (lines 111-120).                                   *)
(*                                                                         *)
(* A value of the decoded JSON payload is a record [type, n, s]: its       *)
(* Python type, its number when it is an int, its characters when it is a  *)
(* str.  A float is held in hundredths (n = 150 is 1.5).                   *)
(***************************************************************************)
ANSI_CYAN == <<"ESC", "[", "3", "6", "m">>

IntValue(n) == [type |-> "int", n |-> n, s |-> <<>>]

StrValue(s) == [type |-> "str", n |-> 0, s |-> s]

NoneValue == [type |-> "NoneType", n |-> 0, s |-> <<>>]

FloatValue(hundredths) == [type |-> "float", n |-> hundredths, s |-> <<>>]

\* the key is not in the dict
Absent == [type |-> "absent", n |-> 0, s |-> <<>>]

\* the dict {"predicted_ms": ms}
Timings(ms) == [type |-> "dict", n |-> ms, s |-> <<>>]

\* dict.get(key, default)
Get(v, default) == IF v.type = "absent" THEN default ELSE v

\* type(v).__name__
TypeName(v) ==
    CASE v.type = "int" -> <<"i", "n", "t">>
      [] v.type = "str" -> <<"s", "t", "r">>
      [] v.type = "float" -> <<"f", "l", "o", "a", "t">>
      [] v.type = "dict" -> <<"d", "i", "c", "t">>
      [] OTHER -> <<"N", "o", "n", "e", "T", "y", "p", "e">>

DecimalDigits == <<"0", "1", "2", "3", "4", "5", "6", "7", "8", "9">>

\* str(n) for an int n >= 0
RECURSIVE IntToStr(_)
IntToStr(n) ==
    IF n < 10 THEN <<DecimalDigits[n + 1]>>
    ELSE IntToStr(n \div 10) \o <<DecimalDigits[(n % 10) + 1]>>

\* f"{x:.2f}" for a float x >= 0 held in hundredths
Fixed2(hundredths) ==
    IntToStr(hundredths \div 100) \o <<".">>
    \o <<DecimalDigits[((hundredths \div 10) % 10) + 1],
          DecimalDigits[(hundredths % 10) + 1]>>

\* f"{v}" (lines 223-238)
PyStr(v) ==
    CASE v.type = "int" -> IntToStr(v.n)
      [] v.type = "str" -> v.s
      [] OTHER -> <<"N", "o", "n", "e">>

\* What evaluating an expression comes to: a value, or an exception with
\* str(e) = e.
Returns(v) == [ok |-> TRUE, v |-> v, e |-> <<>>]

Raises(e) == [ok |-> FALSE, v |-> NoneValue, e |-> e]

\* TypeError of a binary operator
UnsupportedOperand(op, a, b) ==
    <<"u", "n", "s", "u", "p", "p", "o", "r", "t", "e", "d", " ", "o", "p",
      "e", "r", "a", "n", "d", " ", "t", "y", "p", "e", "(", "s", ")", " ",
      "f", "o", "r", " ">> \o op \o <<
                                                                                                                                                                                              ":",
                                                                                                                                                                                              " ",
                                                                                                                                                                                              "'">>
    \o TypeName(a) \o <<"'", " ", "a", "n", "d", " ", "'">> \o TypeName(b) \o <<
                                                                                "'">>

\* AttributeError of v.get
NoAttributeGet(v) ==
    <<"'">> \o TypeName(v) \o <<"'", " ", "o", "b", "j", "e", "c", "t", " ",
                                "h", "a", "s", " ", "n", "o", " ", "a", "t",
                                "t", "r", "i", "b", "u", "t", "e", " ", "'",
                                "g", "e", "t", "'">>

\* a + b (line 205)
Add(a, b) ==
    IF a.type = "int" /\ b.type = "int" THEN Returns(IntValue(a.n + b.n))
    ELSE IF a.type = "str" /\ b.type = "str" THEN Returns(StrValue(a.s \o b.s))
    ELSE IF a.type = "str"
    THEN Raises(<<"c", "a", "n", " ", "o", "n", "l", "y", " ", "c", "o", "n",
                  "c", "a", "t", "e", "n", "a", "t", "e", " ", "s", "t", "r",
                  " ", "(", "n", "o", "t", " ", "\"">> \o TypeName(b)
                \o <<"\"", ")", " ", "t", "o", " ", "s", "t", "r">>)
    ELSE Raises(UnsupportedOperand(<<"+">>, a, b))

\* line 198 and line 199 in IEEE double arithmetic: the quotient
\* thinking / total is rounded, so its product with completion can fall
\* just below an integer that the exact product reaches.  Among the
\* completion counts of the model this happens for 22 x (15 / 22), which
\* is 14.999999999999998.
FallsBelow(completion, thinking, total) ==
    completion = 22 /\ 22 * thinking = 15 * total

\* int(completion_tokens * thinking_char_ratio) for an int completion_tokens
ThinkingShare(completion, thinking, total) ==
    IF FallsBelow(completion, thinking, total)
    THEN (completion * thinking) \div total - 1
    ELSE (completion * thinking) \div total

\* lines 198-199: thinking_tokens
ThinkingTokens(completion_tokens, thinking_text, answer) ==
    IF completion_tokens.type = "int"
    THEN Returns(IntValue(ThinkingShare(completion_tokens.n,
                                        Len(thinking_text),
                                        Len(thinking_text) + Len(answer) + 1)))
    ELSE IF completion_tokens.type = "str"
    THEN Raises(<<"c", "a", "n", "'", "t", " ", "m", "u", "l", "t", "i", "p",
                  "l", "y", " ", "s", "e", "q", "u", "e", "n", "c", "e", " ",
                  "b", "y", " ", "n", "o", "n", "-", "i", "n", "t", " ", "o",
                  "f", " ", "t", "y", "p", "e", " ", "'", "f", "l", "o", "a",
                  "t", "'">>)
    ELSE Raises(UnsupportedOperand(<<"*">>, completion_tokens, FloatValue(0)))

\* Mutant of AnswerTokens: the whole completion is counted as answer.
AnswerTokensWhole(completion_tokens, thinking_tokens) == completion_tokens

\* line 200: answer_tokens, both operands being ints
AnswerTokens(completion_tokens, thinking_tokens) ==
    IntValue(completion_tokens.n - thinking_tokens.n)

\* lines 208-212: [ok, e, generation_time, tokens_per_second];
\* generation_time in milliseconds.
TimingsOf(timings, completion_tokens) ==
    IF timings.type = "absent"
    THEN [ok |-> TRUE, e |-> <<>>, generation_time |-> 0,
          tokens_per_second |-> IntValue(0)]
    ELSE IF timings.type # "dict"
    THEN [ok |-> FALSE, e |-> NoAttributeGet(timings), generation_time |-> 0,
          tokens_per_second |-> IntValue(0)]
    ELSE IF timings.n <= 0
    THEN [ok |-> TRUE, e |-> <<>>, generation_time |-> timings.n,
          tokens_per_second |-> IntValue(0)]
    ELSE IF completion_tokens.type = "int"
    THEN [ok |-> TRUE, e |-> <<>>, generation_time |-> timings.n,
          tokens_per_second |->
              FloatValue((completion_tokens.n * 100000) \div timings.n)]
    ELSE [ok |-> FALSE,
          e |-> UnsupportedOperand(<<"/">>, completion_tokens, FloatValue(0)),
          generation_time |-> timings.n, tokens_per_second |-> IntValue(0)]

\* The locals line 220 reads.
Usage(prompt, completion, thinking, answer, total, time, rate) ==
    [prompt_tokens |-> prompt, completion_tokens |-> completion,
     thinking_tokens |-> thinking, answer_tokens |-> answer,
     total_tokens |-> total, generation_time |-> time,
     tokens_per_second |-> rate]

NoUsage == Usage(IntValue(0), IntValue(0), IntValue(0), IntValue(0),
                 IntValue(0), 0, IntValue(0))

Counted(u) == [ok |-> TRUE, e |-> <<>>, usage |-> u]

CountingFailed(e) == [ok |-> FALSE, e |-> e, usage |-> NoUsage]

\* lines 190-212: the counts of a payload d that is true.  [ok, e, usage].
ServerCounts(d, blocks, answer, show) ==
    Eval(Get(d.tokens_evaluated, IntValue(0)), LAMBDA prompt_tokens :
    Eval(Get(d.tokens_predicted, IntValue(0)), LAMBDA completion_tokens :
    Eval(IF blocks # <<>> /\ show
         THEN ThinkingTokens(completion_tokens, Join(blocks, <<"\n">>), answer)
         ELSE Returns(IntValue(0)), LAMBDA thinking :
    IF ~thinking.ok THEN CountingFailed(thinking.e)
    ELSE
    Eval(IF blocks # <<>> /\ show
         THEN AnswerTokens(completion_tokens, thinking.v)
         ELSE completion_tokens, LAMBDA answer_tokens :
    Eval(Add(prompt_tokens, completion_tokens), LAMBDA total :
    IF ~total.ok THEN CountingFailed(total.e)
    ELSE
    Eval(TimingsOf(d.timings, completion_tokens), LAMBDA tm :
    IF ~tm.ok THEN CountingFailed(tm.e)
    ELSE Counted(Usage(prompt_tokens, completion_tokens, thinking.v,
                       answer_tokens, total.v, tm.generation_time,
                       tm.tokens_per_second))))))))

\* len(text.split())
WordCount(s0) ==
    Eval(s0, LAMBDA s :
        Cardinality({i \in 1..Len(s) :
            ~IsSpace(s[i]) /\ (i = 1 \/ IsSpace(s[i - 1]))}))

\* lines 111-120; int(n * 1.3) is the floor of 13 n / 10 for every n the
\* model reaches
count_tokens_in_text(s) ==
    IF s = <<>> THEN 0 ELSE (13 * WordCount(s)) \div 10

\* lines 215-218: the counts of an empty dict, whose get("prompt", "") is
\* "".  completion_tokens keeps the 0 of line 182.
EstimatedCounts(blocks, answer) ==
    Eval(count_tokens_in_text(<<>>), LAMBDA prompt_tokens :
    Eval(IF blocks # <<>>
         THEN count_tokens_in_text(Join(blocks, <<"\n">>)) ELSE 0,
         LAMBDA thinking_tokens :
    Eval(count_tokens_in_text(answer), LAMBDA answer_tokens :
        Counted(Usage(IntValue(prompt_tokens), IntValue(0),
                      IntValue(thinking_tokens), IntValue(answer_tokens),
                      IntValue(prompt_tokens + thinking_tokens
                               + answer_tokens),
                      0, IntValue(0))))))

\* bool(full_response) for a dict: it has a key
HasKeys(d) ==
    \/ d.has_content
    \/ d.tokens_evaluated.type # "absent"
    \/ d.tokens_predicted.type # "absent"
    \/ d.timings.type # "absent"

\* lines 189-218.  payload is None or <<d>>; with None line 215 calls
\* None.get.
TokenCounts(payload, blocks, answer, show) ==
    IF payload # None /\ HasKeys(payload[1])
    THEN ServerCounts(payload[1], blocks, answer, show)
    ELSE IF payload = None THEN CountingFailed(NoAttributeGet(NoneValue))
    ELSE EstimatedCounts(blocks, answer)

thinking_process_label == <<"[", "T", "h", "i", "n", "k", "i", "n", "g", " ",
                            "P", "r", "o", "c", "e", "s", "s", "]">>

\* line 170: formatted_block.  Line 138 has already called
\* format_thinking_block for this block and this width, and it returned.
CountedBlock(block, w, color) ==
    IF color THEN format_thinking_block(block, w).s
    ELSE <<"\n">> \o thinking_process_label \o <<"\n">> \o block \o <<"\n">>

\* lines 167-174
RECURSIVE CleanText(_, _, _, _, _)
CleanText(s0, blocks0, w, show, color) ==
    Eval(s0, LAMBDA s : Eval(blocks0, LAMBDA blocks :
        IF blocks = <<>> \/ ~show THEN s
        ELSE CleanText(Replace(s, CountedBlock(blocks[1], w, color), <<>>),
                       Tail(blocks), w, show, color)))

\* lines 167-178: answer_content
AnswerContent(s, blocks, w, show, color) ==
    Strip(CollapseNewlines(CleanText(s, blocks, w, show, color)))

counts_title ==
    <<"BOX_D", "BOX_D", "BOX_D", "BOX_D", "BOX_D", "BOX_D">>
    \o <<" ", "T", "o", "k", "e", "n", " ", "C", "o", "u", "n", "t", "s",
         " ">>
    \o <<"BOX_D", "BOX_D", "BOX_D", "BOX_D", "BOX_D", "BOX_D">>

\* one line of the report: the label, the value in bold when use_color
CountsLine(label, value, unit, color) ==
    label \o (IF color THEN ANSI_BOLD \o value \o ANSI_RESET ELSE value)
    \o unit \o <<"\n">>

\* Mutant of ShowsThinkingLine: the line is always written.
ShowsThinkingLineAlways(blocks, show) == TRUE

\* lines 224 and 235
ShowsThinkingLine(blocks, show) == blocks # <<>> /\ show

\* lines 221-242: counts_text
CountsText(u, blocks, show, color) ==
    <<"\n", "\n">>
    \o (IF color THEN ANSI_CYAN \o counts_title \o ANSI_RESET
        ELSE counts_title) \o <<"\n">>
    \o CountsLine(<<"P", "r", "o", "m", "p", "t", " ", "t", "o", "k", "e",
                    "n", "s", ":", " ">>, PyStr(u.prompt_tokens), <<>>, color)
    \o (IF ShowsThinkingLine(blocks, show)
        THEN CountsLine(<<"T", "h", "i", "n", "k", "i", "n", "g", " ", "t",
                          "o", "k", "e", "n", "s", ":", " ">>, PyStr(u.thinking_tokens),
                        <<>>, color)
        ELSE <<>>)
    \o CountsLine(<<"A", "n", "s", "w", "e", "r", " ", "t", "o", "k", "e",
                    "n", "s", ":", " ">>, PyStr(u.answer_tokens), <<>>, color)
    \o CountsLine(<<"T", "o", "t", "a", "l", " ", "t", "o", "k", "e", "n",
                    "s", ":", " ">>, PyStr(u.total_tokens), <<>>, color)
    \o (IF u.generation_time > 0
        THEN CountsLine(<<"G", "e", "n", "e", "r", "a", "t", "i", "o", "n",
                          " ", "t", "i", "m", "e", ":", " ">>,
                        Fixed2(u.generation_time \div 10), <<" ", "s", "e",
                                                             "c", "o", "n",
                                                             "d", "s">>,
                        color)
             \o CountsLine(<<"T", "o", "k", "e", "n", "s", " ", "p", "e",
                             "r", " ", "s", "e", "c", "o", "n", "d", ":",
                             " ">>,
                           Fixed2(u.tokens_per_second.n), <<>>, color)
        ELSE <<>>)

counting_failed_label == <<"[", "N", "o", "t", "e", ":", " ", "T", "o", "k",
                           "e", "n", " ", "c", "o", "u", "n", "t", "i", "n",
                           "g", " ", "f", "a", "i", "l", "e", "d", ":", " ">>

\* lines 247-250: what the handler appends
CountingFailedNote(e, color) ==
    <<"\n", "\n">>
    \o (IF color
        THEN ANSI_YELLOW \o counting_failed_label \o e \o <<"]">>
             \o ANSI_RESET
        ELSE counting_failed_label \o e \o <<"]">>)

\* Mutant of AfterCounts: the handler runs after the report was appended.
AfterCountsPartial(s, c, blocks, show, color) ==
    IF c.ok THEN s \o CountsText(c.usage, blocks, show, color)
    ELSE s \o CountsText(c.usage, blocks, show, color)
         \o CountingFailedNote(c.e, color)

\* lines 244-250: the text after the try statement
AfterCounts(s, c, blocks, show, color) ==
    IF c.ok THEN s \o CountsText(c.usage, blocks, show, color)
    ELSE s \o CountingFailedNote(c.e, color)

\* format_response(text, width, show_thinking, use_color, tokens, True,
\* full_response): the locals the claims read and the returned string.
\* ok is FALSE when the thinking-block loop raises (nothing is returned);
\* usage is <<the counts>> when line 244 ran, error is <<str(e)>> when the
\* handler of line 245 ran.
format_response_counts(t, w, show, color, toks, payload) ==
    Eval(format_response(t, w, show, color, toks), LAMBDA r :
    IF ~r.ok
    THEN [ok |-> FALSE, thinking_blocks |-> r.thinking_blocks,
          think_text |-> <<>>, is_truncated |-> FALSE, rendered |-> <<>>,
          answer_content |-> <<>>, usage |-> None, error |-> None,
          out |-> <<>>]
    ELSE
    Eval(AnswerContent(r.out, r.thinking_blocks, w, show, color),
         LAMBDA answer :
    Eval(TokenCounts(payload, r.thinking_blocks, answer, show), LAMBDA c :
        [ok |-> TRUE, thinking_blocks |-> r.thinking_blocks,
         think_text |-> r.think_text, is_truncated |-> r.is_truncated,
         rendered |-> r.out, answer_content |-> answer,
         usage |-> IF c.ok THEN <<c.usage>> ELSE None,
         error |-> IF c.ok THEN None ELSE <<c.e>>,
         out |-> AfterCounts(r.out, c, r.thinking_blocks, show, color)])))

(***************************************************************************)
(* The inputs of format_response with show_counts.                         *)
(***************************************************************************)
MaxCountPieces == 2

\* "<think>a b</think>"
ThinkPiece == <<"<", "t", "h", "i", "n", "k", ">", "a", " ", "b", "<", "/",
                "t", "h", "i", "n", "k", ">">>

CountPieces == { ThinkPiece, <<"b">>, <<" ", "c">>, <<"\n", "\n">>,
                 <<".", ".", ".">> }

RECURSIVE CountPieceTexts(_)
CountPieceTexts(n) ==
    IF n = 0 THEN {<<>>}
    ELSE LET shorter == CountPieceTexts(n - 1)
         IN  shorter \cup {s \o p : s \in shorter, p \in CountPieces}

\* "Hello there!"
ScenarioHello == <<"H", "e", "l", "l", "o", " ", "t", "h", "e", "r", "e",
                   "!">>

\* a block of 15 characters and an answer of 6
ScenarioShare == <<"<", "t", "h", "i", "n", "k", ">", "f", "i", "f", "t",
                   "e", "e", "n", " ", "l", "e", "t", "t", "e", "r", "s",
                   "<", "/", "t", "h", "i", "n", "k", ">", "a", "n", "s",
                   "w", "e", "r">>

CountTexts ==
    CountPieceTexts(MaxCountPieces)
    \cup {ScenarioHello, ScenarioShare, ScenarioNested}

Payload(content, evaluated, predicted, timings) ==
    [has_content |-> content, tokens_evaluated |-> evaluated,
     tokens_predicted |-> predicted, timings |-> timings]

\* {}
EmptyPayload == Payload(FALSE, Absent, Absent, Absent)

\* full_response: None, {} or a dict with "content" and some of
\* "tokens_evaluated", "tokens_predicted", "timings".
Payloads ==
    {None, <<EmptyPayload>>}
    \cup { <<Payload(TRUE, evaluated, predicted, timings)>> :
             evaluated \in {Absent, IntValue(5), StrValue(<<"5">>)},
             predicted \in {Absent, IntValue(3), IntValue(22),
                            StrValue(<<"3">>), NoneValue},
             timings \in {Absent, StrValue(<<"f", "a", "s", "t">>),
                          Timings(0), Timings(2000)} }

InitCounts ==
    /\ pc = "call"
    /\ text \in CountTexts
    /\ show_thinking \in BOOLEAN
    /\ use_color \in BOOLEAN
    /\ width \in (IF show_thinking /\ use_color THEN Widths
                  ELSE {DefaultWidth})
    /\ tokens = None
    /\ thinking_blocks = <<>>
    /\ think_text = <<>>
    /\ is_truncated = FALSE
    /\ formatted = <<>>
    /\ show_counts = TRUE
    /\ full_response \in Payloads
    /\ rendered = <<>>
    /\ answer_content = <<>>
    /\ usage = None
    /\ counts_error = None
    /\ DedupIdle /\ TrimIdle /\ CodeIdle /\ CliIdle

CountsFrame(r) ==
    /\ pc' = "returned"
    /\ thinking_blocks' = r.thinking_blocks
    /\ think_text' = r.think_text
    /\ is_truncated' = r.is_truncated
    /\ rendered' = r.rendered
    /\ answer_content' = r.answer_content
    /\ usage' = r.usage
    /\ counts_error' = r.error
    /\ formatted' = r.out
    /\ UNCHANGED <<text, width, show_thinking, use_color, tokens, show_counts,
                   full_response, dvars, tvars, bvars, pvars>>

\* The call returns the document with the usage report.
CountsReported ==
    /\ pc = "call" /\ show_counts
    /\ \E r \in {format_response_counts(text, width, show_thinking, use_color,
                                        tokens, full_response)} :
           r.ok /\ r.usage # None /\ CountsFrame(r)

\* The call returns the document with the note of line 248 or 250.
CountsFailed ==
    /\ pc = "call" /\ show_counts
    /\ \E r \in {format_response_counts(text, width, show_thinking, use_color,
                                        tokens, full_response)} :
           r.ok /\ r.error # None /\ CountsFrame(r)

\* The call raises before line 164 (re.error from re.sub, ValueError from
\* textwrap.wrap).
CountsRaises ==
    /\ pc = "call" /\ show_counts
    /\ \E r \in {format_response_counts(text, width, show_thinking, use_color,
                                        tokens, full_response)} :
           /\ ~r.ok
           /\ pc' = "raised"
           /\ thinking_blocks' = r.thinking_blocks
    /\ UNCHANGED <<text, width, show_thinking, use_color, tokens, think_text,
                   is_truncated, formatted, uvars, dvars, tvars, bvars, pvars>>

NextCounts == CountsReported \/ CountsFailed \/ CountsRaises

SpecCounts == InitCounts /\ [][NextCounts]_vars

(***************************************************************************)
(* Claims about the usage report.                                          *)
(***************************************************************************)
\* The call returned a document with a usage report.
Reported == pc = "returned" /\ usage # None

\* full_response is a dict with integer tokens_evaluated and
\* tokens_predicted.
IntegerCounts ==
    /\ full_response # None
    /\ full_response[1].tokens_evaluated.type = "int"
    /\ full_response[1].tokens_predicted.type = "int"

\* C14: whenever format_response produces a usage report from a server
\* payload with integer tokens_evaluated and tokens_predicted, the reported
\* prompt and completion counts are those of the payload, total tokens =
\* prompt tokens + completion tokens and thinking tokens + answer tokens =
\* completion tokens, in show mode and in hide mode, with and without
\* thinking blocks.
C14_ServerCountsAddUp ==
    (Reported /\ IntegerCounts) =>
        LET u == usage[1]
            d == full_response[1]
        IN  /\ u.prompt_tokens = d.tokens_evaluated
            /\ u.completion_tokens = d.tokens_predicted
            /\ u.total_tokens.type = "int"
            /\ u.total_tokens.n = u.prompt_tokens.n + u.completion_tokens.n
            /\ u.thinking_tokens.type = "int"
            /\ u.answer_tokens.type = "int"
            /\ u.thinking_tokens.n + u.answer_tokens.n = u.completion_tokens.n
            /\ Contains(formatted,
                        <<"T", "o", "t", "a", "l", " ", "t", "o", "k", "e",
                          "n", "s", ":", " ">>
                        \o (IF use_color THEN ANSI_BOLD ELSE <<>>)
                        \o IntToStr(d.tokens_evaluated.n
                                    + d.tokens_predicted.n)
                        \o (IF use_color THEN ANSI_RESET ELSE <<>>)
                        \o <<"\n">>)

\* A report in show mode that splits the completion into a thinking part
\* and an answer part, neither of them empty.
C14_Witness ==
    /\ Reported /\ IntegerCounts
    /\ show_thinking /\ thinking_blocks # <<>>
    /\ usage[1].thinking_tokens.n > 0
    /\ usage[1].answer_tokens.n > 0

\* The answer text of the response: the response without its thinking
\* blocks, as format_response renders it in hide mode without a truncation
\* note, trimmed.
AnswerText ==
    Strip(CollapseNewlines(CleanTags(HideThinking(StripMarkers(text)))))

ThinkingText == Join(thinking_blocks, <<"\n">>)

\* The report of the server-reported branch with thinking blocks extracted
\* and displayed.
ThinkingDisplayed ==
    /\ Reported /\ IntegerCounts
    /\ show_thinking /\ thinking_blocks # <<>>

\* C15: in the server-reported branch with thinking blocks extracted and
\* displayed, thinking tokens = floor(completion tokens x len(thinking text)
\* / (len(thinking text) + len(answer text) + 1)), the answer text being the
\* response without its thinking blocks, for both settings of use_color and
\* with or without a truncation note.
C15_ThinkingShareOfAnswerText ==
    ThinkingDisplayed =>
        usage[1].thinking_tokens.n
            = (usage[1].completion_tokens.n * Len(ThinkingText))
                  \div (Len(ThinkingText) + Len(AnswerText) + 1)

\* Without colour the thinking text is still part of answer_content, and
\* the thinking tokens are fewer than the claimed share.
C15_Witness ==
    /\ ThinkingDisplayed
    /\ ~use_color /\ ~is_truncated
    /\ text = ThinkPiece \o <<"b">>
    /\ answer_content = <<"a", " ", "b", "b">>
    /\ usage[1].completion_tokens.n = 22
    /\ usage[1].thinking_tokens.n = 8

\* C16: when token counts are requested and no server payload is supplied,
\* format_response produces a usage report whose prompt, thinking and
\* answer tokens are each floor(word count x 1.3) of the prompt, of the
\* thinking text and of the answer text, and whose total is their sum.
C16_EstimatedReport ==
    (pc = "returned" /\ show_counts /\ full_response = None) =>
        /\ usage # None
        /\ LET u == usage[1]
           IN  /\ u.prompt_tokens.n = 0
               /\ u.thinking_tokens.n
                      = (13 * WordCount(ThinkingText)) \div 10
               /\ u.answer_tokens.n
                      = (13 * WordCount(answer_content)) \div 10
               /\ u.total_tokens.n
                      = u.prompt_tokens.n + u.thinking_tokens.n
                        + u.answer_tokens.n

\* Without a payload the document ends with the note of a failed count.
C16_Witness ==
    /\ pc = "returned" /\ show_counts /\ full_response = None
    /\ text = ScenarioHello
    /\ usage = None
    /\ counts_error = <<NoAttributeGet(NoneValue)>>
    /\ formatted = ScenarioHello
                   \o CountingFailedNote(NoAttributeGet(NoneValue), use_color)

\* C17: if the token computation fails, format_response returns: the
\* document is the text rendered up to line 164 followed by one note, the
\* note occurs once, and no part of a usage report is in the document.  The
\* call raises only where it raises without show_counts, whatever the
\* payload.
C17_FailureLeavesOneNote ==
    /\ (pc = "returned" /\ counts_error # None) =>
           /\ usage = None
           /\ formatted
                  = rendered \o <<"\n", "\n">>
                    \o (IF use_color THEN ANSI_YELLOW ELSE <<>>)
                    \o counting_failed_label \o counts_error[1] \o <<"]">>
                    \o (IF use_color THEN ANSI_RESET ELSE <<>>)
           /\ rendered
                  = format_response(text, width, show_thinking, use_color,
                                    tokens).out
           /\ CountOccurrences(formatted, counting_failed_label) = 1
           /\ ~Contains(formatted, counts_title)
           /\ ~Contains(formatted, <<"t", "o", "k", "e", "n", "s", ":", " ">>)
    /\ (pc = "raised" /\ show_counts) =>
           ~format_response(text, width, show_thinking, use_color, tokens).ok

\* timings is a string: the counts were computed and the report was not
\* written.
C17_Witness ==
    /\ pc = "returned" /\ counts_error # None
    /\ IntegerCounts
    /\ full_response[1].timings.type = "str"
    /\ counts_error = <<<<"'", "s", "t", "r", "'", " ", "o", "b", "j", "e",
                          "c", "t", " ", "h", "a", "s", " ", "n", "o", " ",
                          "a", "t", "t", "r", "i", "b", "u", "t", "e", " ",
                          "'", "g", "e", "t", "'">>>>

\* Prompt "Say hi"; the payload has content "Hello there!", tokens_evaluated
\* 5 and tokens_predicted 3; no token ceiling.
C18_Scenario ==
    /\ pc = "returned"
    /\ text = ScenarioHello
    /\ tokens = None
    /\ full_response = <<Payload(TRUE, IntValue(5), IntValue(3), Absent)>>

C18_Report ==
    <<"\n", "\n", "BOX_D", "BOX_D", "BOX_D", "BOX_D", "BOX_D", "BOX_D", " ",
      "T", "o", "k", "e", "n", " ", "C", "o", "u", "n", "t", "s", " ",
      "BOX_D", "BOX_D", "BOX_D", "BOX_D", "BOX_D", "BOX_D", "\n", "P", "r",
      "o", "m", "p", "t", " ", "t", "o", "k", "e", "n", "s", ":", " ", "5",
      "\n", "A", "n", "s", "w", "e", "r", " ", "t", "o", "k", "e", "n", "s",
      ":", " ", "3", "\n", "T", "o", "t", "a", "l", " ", "t", "o", "k", "e",
      "n", "s", ":", " ", "8", "\n">>

C18_ReportInColor ==
    <<"\n", "\n", "ESC", "[", "3", "6", "m", "BOX_D", "BOX_D", "BOX_D",
      "BOX_D", "BOX_D", "BOX_D", " ", "T", "o", "k", "e", "n", " ", "C", "o",
      "u", "n", "t", "s", " ", "BOX_D", "BOX_D", "BOX_D", "BOX_D", "BOX_D",
      "BOX_D", "ESC", "[", "0", "m", "\n", "P", "r", "o", "m", "p", "t", " ",
      "t", "o", "k", "e", "n", "s", ":", " ", "ESC", "[", "1", "m", "5",
      "ESC", "[", "0", "m", "\n", "A", "n", "s", "w", "e", "r", " ", "t",
      "o", "k", "e", "n", "s", ":", " ", "ESC", "[", "1", "m", "3", "ESC",
      "[", "0", "m", "\n", "T", "o", "t", "a", "l", " ", "t", "o", "k", "e",
      "n", "s", ":", " ", "ESC", "[", "1", "m", "8", "ESC", "[", "0", "m",
      "\n">>

\* C18: for a payload with content "Hello there!", tokens_evaluated 5 and
\* tokens_predicted 3, without thinking tags and without a token ceiling,
\* the document is "Hello there!" followed by a usage report of prompt
\* tokens 5, answer tokens 3 and total tokens 8, without a thinking-tokens
\* line.
C18_HelloReport ==
    C18_Scenario =>
        /\ formatted
               = ScenarioHello
                 \o (IF use_color THEN C18_ReportInColor ELSE C18_Report)
        /\ ~Contains(formatted, <<"T", "h", "i", "n", "k", "i", "n", "g",
                                  " ", "t", "o", "k", "e", "n", "s">>)

C18_Witness ==
    /\ C18_Scenario
    /\ show_thinking /\ ~use_color
    /\ usage # None
    /\ usage[1].total_tokens = IntValue(8)

(***************************************************************************)
(* The command-line entry points: main and query_server of                 *)
(* src/query-llama.py, main and query_llama_server of                      *)
(* src/archive/llama_query.py.  A process is at "main" before its request, *)
(* "waiting" while the request is with the server, "received" when the     *)
(* request function has returned to main, and "exited" afterwards.         *)
(***************************************************************************)
\* What the except clauses of query_server and query_llama_server catch.
Failures == {"refused", "timeout", "http_error", "invalid_json"}

\* Mutant of token_limit: the value of --tokens as it is.
token_limit_unraised(given, think) == given

\* src/query-llama.py lines 267-272: token_limit, from args.tokens (given)
\* and args.think
token_limit(given, think) ==
    IF given # None /\ think /\ given[1] < 512 THEN <<512>>
    ELSE given

\* query_server lines 60-62: the payload has "n_predict" only when
\* max_tokens is not None.
n_predict_of(max_tokens) ==
    IF max_tokens # None THEN max_tokens ELSE None

\* The values of --tokens: not given, and below, between and above the
\* thresholds of lines 151 and 271.
CliTokens == {None, <<0>>, <<25>>, <<600>>}

\* Mutant of IsEmptyContent: only the empty string is refused.
IsEmptyContentNoStrip(content) == content = <<>>

\* src/query-llama.py line 291: not content.strip()
IsEmptyContent(content) == Strip(content) = <<>>

\* The content the server answers with.
CliContents ==
    { <<>>, <<" ", "\n">>, ScenarioHello, ThinkPiece \o <<"b">>,
      think_open \o <<"\\">> \o think_close }

\* The decoded response line 303 passes on with --counts.
ServerPayload == Payload(TRUE, IntValue(5), IntValue(3), Absent)

\* src/query-llama.py lines 296-304: the call of format_response.
MainFormat ==
    IF show_counts
    THEN format_response_counts(text, width, show_thinking, use_color,
                                tokens, full_response)
    ELSE Eval(format_response(text, width, show_thinking, use_color, tokens),
              LAMBDA r :
                  [ok |-> r.ok, thinking_blocks |-> r.thinking_blocks,
                   think_text |-> r.think_text,
                   is_truncated |-> r.is_truncated, rendered |-> r.out,
                   answer_content |-> <<>>, usage |-> None, error |-> None,
                   out |-> r.out])

\* src/archive/llama_query.py: the content, the prompts and the widths of
\* the model.  No content holds a fence line, so format_code_blocks returns
\* it as it is and wrap_text wraps every line that is not blank.
ArchiveContents ==
    { <<>>, <<"h", "i", " ", "t", "h", "e", "r", "e">>, <<"a", "\n", "\n",
                                                          "b">> }

ArchivePrompts == { <<>>, PromptHi }

ArchiveWidths == {0, 30}

\* src/archive/llama_query.py lines 276-289 raise: split('') in
\* trim_prompt_repetition, or textwrap.wrap in wrap_text for a width
\* below 1.
ProcessingRaises(content, prompt, w, is_raw, skip_clean) ==
    IF is_raw THEN FALSE
    ELSE
    Eval(IF skip_clean THEN [ok |-> TRUE, s |-> content]
         ELSE trim_prompt_repetition(content, prompt), LAMBDA t :
        IF ~t.ok THEN TRUE
        ELSE
        Eval(IF skip_clean THEN t.s
             ELSE detect_and_remove_repetition(t.s, MIN_PARAGRAPH_LENGTH).out,
             LAMBDA cleaned :
        Eval(Split(cleaned, "\n"), LAMBDA lines :
            w < 1 /\ \E i \in 1..Len(lines) : Strip(lines[i]) # <<>>)))

InitCli ==
    /\ entry \in {"query-llama", "llama_query"}
    /\ ppc = "main"
    /\ requests = 0
    /\ response = "none"
    /\ reported = FALSE
    /\ format_calls = 0
    /\ printed = FALSE
    /\ exit_code = None
    /\ n_predict = None
    /\ pc = "idle"
    /\ text = <<>>
    /\ thinking_blocks = <<>>
    /\ think_text = <<>>
    /\ is_truncated = FALSE
    /\ formatted = <<>>
    /\ full_response = None
    /\ rendered = <<>>
    /\ answer_content = <<>>
    /\ usage = None
    /\ counts_error = None
    /\ tpc = "idle"
    /\ ttext = <<>>
    /\ trimmed = <<>>
    /\ bpc = "idle"
    /\ btext = <<>>
    /\ line_no = 0
    /\ in_code_block = FALSE
    /\ formatted_lines = <<>>
    /\ emitted = <<>>
    /\ wtext = <<>>
    /\ wrap_no = 0
    /\ wrap_in_code_block = FALSE
    /\ wrapped_lines = <<>>
    /\ DedupIdle
    /\ IF entry = "query-llama"
       THEN /\ show_thinking \in BOOLEAN
            /\ use_color \in BOOLEAN
            /\ width \in {4, DefaultWidth}
            /\ args_tokens \in CliTokens
            /\ tokens = None
            /\ show_counts \in BOOLEAN
            /\ json_mode = FALSE
            /\ raw = FALSE
            /\ no_clean = FALSE
            /\ tprompt = <<>>
            /\ bwidth = 0
       ELSE /\ show_thinking = FALSE
            /\ use_color = FALSE
            /\ width = 0
            /\ args_tokens = None
            /\ tokens = None
            /\ show_counts = FALSE
            /\ json_mode \in BOOLEAN
            /\ raw \in BOOLEAN
            /\ no_clean \in BOOLEAN
            /\ tprompt \in ArchivePrompts
            /\ bwidth \in ArchiveWidths

\* src/query-llama.py main lines 266-284, query_server lines 31-70: the
\* request is sent.
Post ==
    /\ entry = "query-llama" /\ ppc = "main"
    /\ tokens' = token_limit(args_tokens, show_thinking)
    /\ n_predict' = n_predict_of(tokens')
    /\ requests' = requests + 1
    /\ ppc' = "waiting"
    /\ UNCHANGED <<pc, text, width, show_thinking, use_color, thinking_blocks,
                   think_text, is_truncated, formatted, dvars, uvars, tvars,
                   bvars, entry, args_tokens, json_mode, raw, no_clean, response, reported,
                   format_calls, printed, exit_code>>

\* query_server lines 66-81: requests.post, raise_for_status or
\* response.json raises; the handler prints the error and exits with 1.
PostFails ==
    /\ entry = "query-llama" /\ ppc = "waiting"
    /\ response' \in Failures
    /\ reported' = TRUE
    /\ exit_code' = <<1>>
    /\ ppc' = "exited"
    /\ UNCHANGED <<fvars, dvars, uvars, tvars, bvars, entry, args_tokens, n_predict, json_mode, raw,
                   no_clean, requests, format_calls, printed>>

\* query_server lines 66-78, main line 290: the response is decoded.
PostReturns ==
    /\ entry = "query-llama" /\ ppc = "waiting"
    /\ response' = "ok"
    /\ text' \in CliContents
    /\ full_response' = IF show_counts THEN <<ServerPayload>> ELSE None
    /\ ppc' = "received"
    /\ UNCHANGED <<pc, width, show_thinking, use_color, tokens,
                   thinking_blocks, think_text, is_truncated, formatted,
                   show_counts, rendered, answer_content, usage, counts_error,
                   dvars, tvars, bvars, entry, args_tokens, n_predict, json_mode, raw, no_clean,
                   requests, reported, format_calls, printed, exit_code>>

\* main lines 291-293: the content is blank.
EmptyResponse ==
    /\ entry = "query-llama" /\ ppc = "received"
    /\ IsEmptyContent(text)
    /\ reported' = TRUE
    /\ exit_code' = <<1>>
    /\ ppc' = "exited"
    /\ UNCHANGED <<fvars, dvars, uvars, tvars, bvars, entry, args_tokens, n_predict, json_mode, raw,
                   no_clean, requests, response, format_calls, printed>>

\* main lines 296-306: the document is formatted and printed, and main
\* returns.
PrintFormatted ==
    /\ entry = "query-llama" /\ ppc = "received"
    /\ ~IsEmptyContent(text)
    /\ \E r \in {MainFormat} :
           /\ r.ok
           /\ pc' = "returned"
           /\ thinking_blocks' = r.thinking_blocks
           /\ think_text' = r.think_text
           /\ is_truncated' = r.is_truncated
           /\ rendered' = r.rendered
           /\ answer_content' = r.answer_content
           /\ usage' = r.usage
           /\ counts_error' = r.error
           /\ formatted' = r.out
    /\ format_calls' = format_calls + 1
    /\ printed' = TRUE
    /\ exit_code' = <<0>>
    /\ ppc' = "exited"
    /\ UNCHANGED <<text, width, show_thinking, use_color, tokens, show_counts,
                   full_response, dvars, tvars, bvars, entry, args_tokens, n_predict, json_mode, raw,
                   no_clean, requests, response, reported>>

\* main lines 296-304: format_response raises, nothing catches it, the
\* interpreter prints the traceback and exits with 1.
FormatRaises ==
    /\ entry = "query-llama" /\ ppc = "received"
    /\ ~IsEmptyContent(text)
    /\ \E r \in {MainFormat} :
           /\ ~r.ok
           /\ pc' = "raised"
           /\ thinking_blocks' = r.thinking_blocks
    /\ format_calls' = format_calls + 1
    /\ reported' = TRUE
    /\ exit_code' = <<1>>
    /\ ppc' = "exited"
    /\ UNCHANGED <<text, width, show_thinking, use_color, tokens, think_text,
                   is_truncated, formatted, dvars, uvars, tvars, bvars, entry, args_tokens, n_predict,
                   json_mode, raw, no_clean, requests, response, printed>>

\* src/archive/llama_query.py main lines 248-262, query_llama_server lines
\* 163-205: the request is sent.
Create ==
    /\ entry = "llama_query" /\ ppc = "main"
    /\ requests' = requests + 1
    /\ ppc' = "waiting"
    /\ UNCHANGED <<fvars, dvars, uvars, tvars, bvars, entry, args_tokens, n_predict, json_mode, raw,
                   no_clean, response, reported, format_calls, printed,
                   exit_code>>

\* query_llama_server lines 223-226: the request raises; the handler prints
\* the error and returns {"error": str(e)}.  main prints it (lines 250-252
\* or 266-269) and returns, and the interpreter exits with 0.
CreateFails ==
    /\ entry = "llama_query" /\ ppc = "waiting"
    /\ response' \in Failures
    /\ reported' = TRUE
    /\ exit_code' = <<0>>
    /\ ppc' = "exited"
    /\ UNCHANGED <<fvars, dvars, uvars, tvars, bvars, entry, args_tokens, n_predict, json_mode, raw,
                   no_clean, requests, format_calls, printed>>

\* query_llama_server lines 199-221: the response arrives.
CreateReturns ==
    /\ entry = "llama_query" /\ ppc = "waiting"
    /\ response' = "ok"
    /\ ttext' \in ArchiveContents
    /\ ppc' = "received"
    /\ UNCHANGED <<fvars, dvars, uvars, tpc, tprompt, trimmed, bvars, entry, args_tokens, n_predict,
                   json_mode, raw, no_clean, requests, reported, format_calls,
                   printed, exit_code>>

\* main lines 248-252: --json prints the result and returns.
PrintsJson ==
    /\ entry = "llama_query" /\ ppc = "received"
    /\ json_mode
    /\ printed' = TRUE
    /\ exit_code' = <<0>>
    /\ ppc' = "exited"
    /\ UNCHANGED <<fvars, dvars, uvars, tvars, bvars, entry, args_tokens, n_predict, json_mode, raw,
                   no_clean, requests, response, reported, format_calls>>

\* main lines 271-308: the response is cleaned, wrapped and printed.
PrintsResponse ==
    /\ entry = "llama_query" /\ ppc = "received"
    /\ ~json_mode
    /\ ~ProcessingRaises(ttext, tprompt, bwidth, raw, no_clean)
    /\ printed' = TRUE
    /\ exit_code' = <<0>>
    /\ ppc' = "exited"
    /\ UNCHANGED <<fvars, dvars, uvars, tvars, bvars, entry, args_tokens, n_predict, json_mode, raw,
                   no_clean, requests, response, reported, format_calls>>

\* lines 316-318: the handler of the module prints the exception that main
\* raised and exits with 1.
UnexpectedError ==
    /\ entry = "llama_query" /\ ppc = "received"
    /\ ~json_mode
    /\ ProcessingRaises(ttext, tprompt, bwidth, raw, no_clean)
    /\ reported' = TRUE
    /\ exit_code' = <<1>>
    /\ ppc' = "exited"
    /\ UNCHANGED <<fvars, dvars, uvars, tvars, bvars, entry, args_tokens, n_predict, json_mode, raw,
                   no_clean, requests, response, format_calls, printed>>

NextCli ==
    \/ Post \/ PostFails \/ PostReturns \/ EmptyResponse \/ PrintFormatted
    \/ FormatRaises
    \/ Create \/ CreateFails \/ CreateReturns \/ PrintsJson \/ PrintsResponse
    \/ UnexpectedError

SpecCli == InitCli /\ [][NextCli]_vars

(***************************************************************************)
(* Claims about the command-line entry points.                             *)
(***************************************************************************)
\* The request of a query-llama run failed, or its content is blank.
QueryFailed ==
    /\ entry = "query-llama"
    /\ \/ response \in Failures
       \/ response = "ok" /\ Strip(text) = <<>>

\* C19: a run of query-llama ends with exit code 0 only if the request
\* succeeded and the content is not blank after trimming; on a transport
\* failure or on blank content it ends with exit code 1, and then
\* format_response is never called and no document is printed.
C19_ExitCodes ==
    /\ (entry = "query-llama" /\ exit_code = <<0>>) =>
           /\ response = "ok"
           /\ Strip(text) # <<>>
           /\ format_calls = 1
           /\ printed
    /\ QueryFailed =>
           /\ format_calls = 0
           /\ ~printed
           /\ formatted = <<>>
           /\ exit_code \in {None, <<1>>}
           /\ ppc = "exited" => exit_code = <<1>> /\ reported

\* A run that received a content of blanks only.
C19_Witness ==
    /\ entry = "query-llama" /\ ppc = "exited"
    /\ response = "ok" /\ text = <<" ", "\n">>
    /\ exit_code = <<1>> /\ reported /\ format_calls = 0 /\ ~printed

\* C20: in query-llama.py and in archive/llama_query.py one invocation
\* issues at most one request, and a request that timed out or failed is
\* reported, is not retried, and ends the process with a non-zero exit
\* status.
C20_FailedRequestExitsNonZero ==
    /\ requests <= 1
    /\ response \in Failures =>
           /\ requests = 1
           /\ reported
           /\ ppc = "exited"
           /\ exit_code # None /\ exit_code # <<0>>

\* llama_query after a request that timed out: reported, not retried, and
\* exit status 0.
C20_Witness ==
    /\ entry = "llama_query" /\ ppc = "exited"
    /\ response = "timeout"
    /\ requests = 1 /\ reported
    /\ exit_code = <<0>>

(***************************************************************************)
(* format_response on texts that hold pieces of sentinels and of tags      *)
(* (src/query-llama.py lines 126-161).  No text of this specification      *)
(* makes the thinking-block loop raise: the width is the default one and   *)
(* no block holds a backslash.                                             *)
(***************************************************************************)
MaxTagPieces == 3

TagPieces ==
    { im_start, im_end, <<"<", "|", "i", "m", "_">>, <<"s", "t", "a", "r",
                                                       "t", "|", ">">>, <<"<">>, <<
                                                                                                                                                              "t",
                                                                                                                                                              "h",
                                                                                                                                                              "i",
                                                                                                                                                              "n",
                                                                                                                                                              "k",
                                                                                                                                                              ">">>,
      think_open, <<"a">> }

RECURSIVE TagPieceTexts(_)
TagPieceTexts(n) ==
    IF n = 0 THEN {<<>>}
    ELSE LET shorter == TagPieceTexts(n - 1)
         IN  shorter \cup {s \o p : s \in shorter, p \in TagPieces}

\* "<|im_<|im_end|>start|>"
ScenarioSplitSentinel == <<"<", "|", "i", "m", "_", "<", "|", "i", "m", "_",
                           "e", "n", "d", "|", ">", "s", "t", "a", "r", "t",
                           "|", ">">>

\* "<think>a</think><<think>think>"
ScenarioSplitTag == <<"<", "t", "h", "i", "n", "k", ">", "a", "<", "/", "t",
                      "h", "i", "n", "k", ">", "<", "<", "t", "h", "i", "n",
                      "k", ">", "t", "h", "i", "n", "k", ">">>

TagTexts ==
    TagPieceTexts(MaxTagPieces) \cup {ScenarioSplitSentinel, ScenarioSplitTag}

InitTags ==
    /\ pc = "call"
    /\ text \in TagTexts
    /\ show_thinking \in BOOLEAN
    /\ use_color \in BOOLEAN
    /\ width = DefaultWidth
    /\ tokens = None
    /\ thinking_blocks = <<>>
    /\ think_text = <<>>
    /\ is_truncated = FALSE
    /\ formatted = <<>>
    /\ DedupIdle /\ UsageIdle /\ TrimIdle /\ CodeIdle /\ CliIdle

NextTags == FormatResponse

SpecTags == InitTags /\ [][NextTags]_vars

(***************************************************************************)
(* Claims about sentinels and tags.                                        *)
(***************************************************************************)
\* line 127 with the two replacements in the other order
StripMarkersEndFirst(s) == Replace(Replace(s, im_end, <<>>), im_start, <<>>)

\* The text after line 127, where no thinking block was found: it is then
\* the text after line 143 as well.
C21_Stripped == think_text

\* C21: for every input text the result of the marker-stripping step holds
\* neither "<|im_start|>" nor "<|im_end|>", is the input when the input
\* holds no sentinel, and is the same whichever sentinel is removed first.
C21_NoSentinelLeft ==
    (pc = "returned" /\ thinking_blocks = <<>>
         /\ ~Contains(text, think_open)) =>
        /\ C21_Stripped = StripMarkers(text)
        /\ ~Contains(C21_Stripped, im_start)
        /\ ~Contains(C21_Stripped, im_end)
        /\ (~Contains(text, im_start) /\ ~Contains(text, im_end))
               => C21_Stripped = text
        /\ C21_Stripped = StripMarkersEndFirst(text)

\* Removing "<|im_start|>" joins the text around it into a sentinel.
C21_Witness ==
    /\ pc = "returned"
    /\ text = <<"<", "|", "i", "m", "_">> \o im_start \o <<"s", "t", "a",
                                                           "r", "t", "|",
                                                           ">">>
    /\ think_text = im_start
    /\ formatted = im_start

\* C26: for every input text, in show mode and in hide mode, the document
\* format_response returns holds no "<think>" and no "</think>".
C26_NoTagLeft ==
    pc = "returned" =>
        /\ ~Contains(formatted, think_open)
        /\ ~Contains(formatted, think_close)

\* Removing "<think>" joins the text around it into a tag.
C26_Witness ==
    /\ pc = "returned"
    /\ text = ScenarioSplitTag
    /\ show_thinking /\ ~use_color
    /\ thinking_blocks = << <<"a">> >>
    /\ formatted = <<"a">> \o think_open

(***************************************************************************)
(* More claims about format_code_blocks and wrap_text.                     *)
(***************************************************************************)
\* How many of the first k lines wrap_text reads start with the fence
\* marker.
WrapFenceCount(k) ==
    Cardinality({i \in 1..k :
        Len(WrapLines[i]) >= 3
        /\ SubSeq(WrapLines[i], 1, 3)
               = <<"BACKTICK", "BACKTICK", "BACKTICK">>})

\* The k-th line wrap_text reads is handed to textwrap.wrap: it is not
\* blank, does not start with the fence marker or with the border prefix,
\* and an even number of lines before it start with the fence marker.
IsWrappedLine(k) ==
    LET line == WrapLines[k]
    IN  /\ \E i \in 1..Len(line) : ~IsSpace(line[i])
        /\ WrapFenceCount(k) = WrapFenceCount(k - 1)
        /\ ~IsOdd(WrapFenceCount(k - 1))
        /\ ~(Len(line) >= 2 /\ SubSeq(line, 1, 2) = <<"BOX_V", " ">>)

\* C23: for a width of at least 1, every iteration of wrap_text appends to
\* the lines it has, exactly the line it read when that line is blank and
\* at least one line otherwise, so the lines never number fewer than the
\* lines read; every line appended by wrapping a line that is neither
\* blank nor code is at most width characters long.
C23_WrapStep ==
    [][(bpc = "wrap" /\ bwidth >= 1 /\ wrap_no' = wrap_no + 1) =>
          LET line == WrapLines[wrap_no + 1]
              new == SubSeq(wrapped_lines', Len(wrapped_lines) + 1,
                            Len(wrapped_lines'))
          IN  /\ SubSeq(wrapped_lines', 1, Len(wrapped_lines))
                     = wrapped_lines
              /\ Len(new) >= 1
              /\ (\A i \in 1..Len(line) : IsSpace(line[i]))
                     => new = <<line>>
              /\ IsWrappedLine(wrap_no + 1)
                     => \A i \in 1..Len(new) : Len(new[i]) <= bwidth
              /\ Len(wrapped_lines') >= wrap_no']_vars

\* wrap_text has returned more lines than it read, at width 1, from a text
\* with a blank line.
C23_Witness ==
    /\ bpc = "returned"
    /\ bwidth = 1
    /\ wrap_no = Len(WrapLines)
    /\ Len(wrapped_lines) > Len(WrapLines)
    /\ \E k \in 1..Len(WrapLines) : WrapLines[k] = <<>>
    /\ \E k \in 1..Len(WrapLines) : IsWrappedLine(k)

\* format_code_blocks has read every line of a text with an odd number of
\* fence lines.
UnterminatedFence ==
    /\ bpc # "idle"
    /\ line_no = Len(CodeLines)
    /\ IsOdd(FenceCount(Len(CodeLines)))

\* The number of the last fence line of the text.
LastFence == Max({i \in 1..Len(CodeLines) : FenceAt(CodeLines[i]) # 0})

\* "\033[33m" + the closing line + "\033[0m"
C24_ClosingLine ==
    <<"ESC", "[", "3", "3", "m", "BOX_BL">> \o Repeat("BOX_H", 9)
    \o <<"ESC", "[", "0", "m">>

\* C24: when the text has an odd number of fence lines, in_code_block is
\* set when format_code_blocks ends; the last fence line is emitted as a
\* header and a border, every line after it with the border prefix, no
\* closing line follows, and format_code_blocks does not raise (only
\* wrap_text does, for a width below 1).
C24_UnterminatedFenceStaysOpen ==
    /\ UnterminatedFence =>
           LET n == Len(CodeLines)
               after == n - LastFence
               m == Len(formatted_lines)
           IN  /\ in_code_block
               /\ m = Len(emitted)
               /\ m >= after + 2
               /\ emitted[m - after - 1] = "header"
               /\ emitted[m - after] = "border"
               /\ \A j \in 1..after :
                      /\ emitted[m - after + j] = "code"
                      /\ formatted_lines[m - after + j]
                             = <<"ESC", "[", "3", "3", "m", "BOX_V", " ",
                                 "ESC", "[", "0", "m",
                                 "ESC", "[", "3", "6", "m">>
                               \o CodeLines[LastFence + j]
                               \o <<"ESC", "[", "0", "m">>
               /\ \A i \in (m - after - 1)..m :
                      formatted_lines[i] # C24_ClosingLine
    /\ (bpc = "raised") => (bwidth < 1 /\ line_no = Len(CodeLines))

\* A text whose only fence line is its first line, followed by two lines.
C24_Witness ==
    /\ UnterminatedFence
    /\ bpc = "wrap" /\ wrap_no = 0
    /\ FenceCount(Len(CodeLines)) = 1
    /\ LastFence = 1
    /\ Len(CodeLines) = 3
    /\ emitted = <<"header", "border", "code", "code">>
    /\ in_code_block

(***************************************************************************)
(* The truncation note and the text before it.                             *)
(***************************************************************************)
\* s without the newlines it ends with.
WithoutTrailingNewlines(s) ==
    SubSeq(s, 1, Max({0} \cup {i \in 1..Len(s) : s[i] # "\n"}))

\* The note as the document shows it, after an empty line.
C22_Note ==
    IF use_color
    THEN <<"\n", "\n", "ESC", "[", "3", "3", "m", "[", "N", "o", "t", "e",
           ":", " ", "R", "e", "s", "p", "o", "n", "s", "e", " ", "m", "a",
           "y", " ", "b", "e", " ", "t", "r", "u", "n", "c", "a", "t", "e",
           "d", "]", "ESC", "[", "0", "m">>
    ELSE <<"\n", "\n", "[", "N", "o", "t", "e", ":", " ", "R", "e", "s", "p",
           "o", "n", "s", "e", " ", "m", "a", "y", " ", "b", "e", " ", "t",
           "r", "u", "n", "c", "a", "t", "e", "d", "]">>

\* The document lines 158-161 produce from the text after the
\* thinking-block handling when no note is appended.
C22_Unnoted == CollapseNewlines(CleanTags(think_text))

\* C22: when the truncation flag is raised, the returned document is the
\* document that the same text gives without the note, less the newlines
\* it ends with, followed by an empty line and the note.
C22_NoteFollowsUnalteredText ==
    (pc = "returned" /\ is_truncated) =>
        formatted = WithoutTrailingNewlines(C22_Unnoted) \o C22_Note

\* A flagged text that ends with a newline and holds a tag that line 158
\* removes.
C22_Witness ==
    /\ pc = "returned"
    /\ is_truncated
    /\ C22_Unnoted # <<>>
    /\ WithoutTrailingNewlines(C22_Unnoted) # C22_Unnoted
    /\ C22_Unnoted # think_text
    /\ formatted = WithoutTrailingNewlines(C22_Unnoted) \o C22_Note

(***************************************************************************)
(* detect_and_remove_repetition applied to its own result.                 *)
(***************************************************************************)
\* What a second call returns for the text the first call returned.
DedupAgain == detect_and_remove_repetition(deduped, min_len).out

\* C25 as stated: applying detect_and_remove_repetition to the text it
\* returned gives that text back.
C25_Idempotent ==
    (dpc = "returned") => DedupAgain = deduped

\* The call on the text that ends with the note has returned: the note is
\* there twice, and a second call would leave it once.
C25_Witness ==
    /\ dpc = "returned"
    /\ dtext = ScenarioNoted
    /\ min_len = MIN_PARAGRAPH_LENGTH
    /\ note_added
    /\ deduped = Join(<<ShortParagraph, LongParagraph,
                        color_text(repetition_note, "dim"),
                        color_text(repetition_note, "dim")>>, <<"\n", "\n">>)
    /\ DedupAgain = Join(<<ShortParagraph, LongParagraph,
                           color_text(repetition_note, "dim")>>,
                         <<"\n", "\n">>)

(***************************************************************************)
(* The token limit of the query-llama command line.                        *)
(***************************************************************************)
\* The limit the command line asks for: none without --tokens, the larger
\* of --tokens and 512 with --think, the value of --tokens otherwise.
C27_Limit ==
    IF args_tokens = None THEN None
    ELSE IF show_thinking THEN <<Max({args_tokens[1], 512})>>
    ELSE args_tokens

\* C27: once the request of query-llama is sent, the "n_predict" it
\* carries and the ceiling format_response receives are the same value,
\* the limit the command line asks for (no "n_predict" and no ceiling
\* without --tokens), and the returned document is flagged by the ceiling
\* check against that value.
C27_OneTokenLimit ==
    (entry = "query-llama" /\ requests >= 1) =>
        /\ n_predict = tokens
        /\ tokens = C27_Limit
        /\ (ppc = "exited" /\ printed) =>
               (is_truncated <=>
                    \/ C5_EndsWithIndicator
                    \/ /\ C27_Limit # None
                       /\ Len(think_text) >= C27_Limit[1] - 20)

\* --think with --tokens 25: the request carried 512, and the document was
\* printed without the flag that a ceiling of 25 would raise.
C27_Witness ==
    /\ entry = "query-llama"
    /\ ppc = "exited"
    /\ printed
    /\ show_thinking
    /\ args_tokens = <<25>>
    /\ n_predict = <<512>>
    /\ tokens = <<512>>
    /\ Len(think_text) >= 5
    /\ ~is_truncated
=============================================================================
